---- MODULE Spec2Model ----
(***************************************************************************)
(* WinSpread: the spreadsheet engine (sheet.h) and the application state   *)
(* machine around it (main.c): cell store, recalculation, single-cell and  *)
(* range clipboards, selection, and the undo/redo log.                     *)
(*                                                                         *)
(* Numbers (C doubles) are fixed-point integers in units of 1/Scale.       *)
(* C strings are TLA+ strings; the null pointer is NULL.  A Cell* is a     *)
(* record whose field exists is FALSE for the null pointer.  The inactive  *)
(* members of the C unions are kept at zero (they are never read through   *)
(* the cell API).                                                          *)
(***************************************************************************)
EXTENDS Integers, Sequences, FiniteSets, TLC

(***************************************************************************)
(* Bounds of the model                                                     *)
(***************************************************************************)
NumRows == 2
NumCols == 2
MaxOps == 2

(***************************************************************************)
(* Program constants                                                       *)
(***************************************************************************)
MAX_UNDO_ACTIONS == 100
DefaultColWidth == 10
DefaultRowHeight == 1
MinSize == 1
MaxColWidth == 50
MaxRowHeight == 10
Scale == 10000

NULL == "<NULL>"

Min(a, b) == IF a < b THEN a ELSE b
Max(a, b) == IF a > b THEN a ELSE b

\* Sequencing of C statements: v is computed once, then F works on its value.
With(v, F(_)) == CHOOSE r \in {F(x) : x \in {v}} : TRUE

(***************************************************************************)
(* Cell (sheet.h, struct Cell)                                             *)
(***************************************************************************)
NullCell ==
    [exists |-> FALSE, type |-> "CELL_EMPTY",
     number |-> 0, string |-> NULL,
     expression |-> NULL, cached_value |-> 0, cached_string |-> NULL,
     is_string_result |-> 0, error |-> "ERROR_NONE",
     width |-> 0, precision |-> 0, align |-> 0,
     format |-> "FORMAT_GENERAL", format_style |-> 0,
     text_color |-> 0, background_color |-> 0, row_height |-> 0,
     row |-> 0, col |-> 0]

cell_new(row, col) ==
    [NullCell EXCEPT !.exists = TRUE, !.type = "CELL_EMPTY",
                     !.row = row, !.col = col,
                     !.width = 10, !.precision = 2, !.align = 2,
                     !.format = "FORMAT_GENERAL", !.format_style = 0,
                     !.text_color = -1, !.background_color = -1,
                     !.row_height = -1]

\* A clear that also resets the formatting to that of a new cell.
cell_clear_to_new(cell) ==
    IF ~cell.exists THEN cell ELSE cell_new(cell.row, cell.col)

\* cell_clear: frees the content, type becomes CELL_EMPTY, formatting kept.
cell_clear(cell) ==
    IF ~cell.exists THEN cell
    ELSE [cell EXCEPT !.type = "CELL_EMPTY", !.number = 0, !.string = NULL,
                      !.expression = NULL, !.cached_value = 0,
                      !.cached_string = NULL, !.is_string_result = 0,
                      !.error = "ERROR_NONE"]

cell_set_number(cell, value) ==
    IF ~cell.exists THEN cell
    ELSE [cell_clear(cell) EXCEPT !.type = "CELL_NUMBER", !.number = value]

cell_set_string(cell, str) ==
    IF ~cell.exists THEN cell
    ELSE [cell_clear(cell) EXCEPT !.type = "CELL_STRING", !.string = str,
                                  !.align = 0]

cell_set_formula(cell, formula) ==
    IF ~cell.exists THEN cell
    ELSE [cell_clear(cell) EXCEPT !.type = "CELL_FORMULA",
                                  !.expression = formula,
                                  !.cached_value = 0, !.cached_string = NULL,
                                  !.is_string_result = 0,
                                  !.error = "ERROR_NONE"]

cell_set_format(cell, format, style) ==
    IF ~cell.exists THEN cell
    ELSE [cell EXCEPT !.format = format, !.format_style = style]

cell_set_text_color(cell, color) ==
    IF ~cell.exists THEN cell ELSE [cell EXCEPT !.text_color = color]

cell_set_background_color(cell, color) ==
    IF ~cell.exists THEN cell ELSE [cell EXCEPT !.background_color = color]

(***************************************************************************)
(* Sheet (sheet.h, struct Sheet)                                           *)
(***************************************************************************)
Pos == (0 .. NumRows - 1) \X (0 .. NumCols - 1)

NoSelection ==
    [start_row |-> 0, start_col |-> 0, end_row |-> 0, end_col |-> 0,
     is_active |-> 0]

NoRangeClipboard ==
    [cells |-> <<>>, rows |-> 0, cols |-> 0, is_active |-> 0]

\* calloc(rows * cols, sizeof(Cell*)): every pointer of the grid is null.
NullGrid(rows, cols) ==
    With([p \in (0 .. rows - 1) \X (0 .. cols - 1) |-> NullCell], LAMBDA grid :
      grid @@ grid)

sheet_new(rows, cols) ==
    [rows |-> rows, cols |-> cols,
     cells |-> NullGrid(rows, cols),
     col_widths |-> [c \in 0 .. cols - 1 |-> DefaultColWidth],
     row_heights |-> [r \in 0 .. rows - 1 |-> DefaultRowHeight],
     needs_recalc |-> 0,
     selection |-> NoSelection,
     range_clipboard |-> NoRangeClipboard]

InGrid(sheet, row, col) ==
    ~(row < 0 \/ row >= sheet.rows \/ col < 0 \/ col >= sheet.cols)

sheet_get_cell(sheet, row, col) ==
    IF ~InGrid(sheet, row, col) THEN NullCell
    ELSE sheet.cells[<<row, col>>]

\* A creation that takes the nearest cell of the grid for a position outside.
sheet_get_or_create_nearest(sheet, row, col) ==
    LET r == Max(0, Min(row, sheet.rows - 1))
        c == Max(0, Min(col, sheet.cols - 1))
    IN IF ~sheet.cells[<<r, c>>].exists
       THEN [sheet EXCEPT !.cells[<<r, c>>] = cell_new(r, c)]
       ELSE sheet

\* The sheet after sheet_get_or_create_cell; the cell it returns is then
\* sheet_get_cell of the result (NullCell outside the grid).
sheet_get_or_create_cell(sheet, row, col) ==
    IF ~InGrid(sheet, row, col) THEN sheet
    ELSE IF ~sheet.cells[<<row, col>>].exists
         THEN [sheet EXCEPT !.cells[<<row, col>>] = cell_new(row, col)]
         ELSE sheet

sheet_set_number(sheet, row, col, value) ==
    With(sheet_get_or_create_cell(sheet, row, col), LAMBDA s1 :
        With(sheet_get_cell(s1, row, col), LAMBDA cell :
          IF cell.exists
           THEN [s1 EXCEPT !.cells[<<row, col>>] = cell_set_number(cell, value),
                           !.needs_recalc = 1]
           ELSE s1))

sheet_set_string(sheet, row, col, str) ==
    With(sheet_get_or_create_cell(sheet, row, col), LAMBDA s1 :
        With(sheet_get_cell(s1, row, col), LAMBDA cell :
          IF cell.exists
           THEN [s1 EXCEPT !.cells[<<row, col>>] = cell_set_string(cell, str)]
           ELSE s1))

sheet_set_formula(sheet, row, col, formula) ==
    With(sheet_get_or_create_cell(sheet, row, col), LAMBDA s1 :
        With(sheet_get_cell(s1, row, col), LAMBDA cell :
          IF cell.exists
           THEN [s1 EXCEPT !.cells[<<row, col>>] = cell_set_formula(cell, formula),
                           !.needs_recalc = 1]
           ELSE s1))

sheet_clear_cell(sheet, row, col) ==
    With(sheet_get_cell(sheet, row, col), LAMBDA cell :
      IF cell.exists
       THEN [sheet EXCEPT !.cells[<<row, col>>] = cell_clear(cell),
                          !.needs_recalc = 1]
       ELSE sheet)

(***************************************************************************)
(* Formula evaluation (sheet.h, evaluate_formula .. parse_factor)          *)
(*                                                                         *)
(* The expressions the model enters are drawn from a fixed set; ParseTree  *)
(* gives, for each of them, the tree the recursive-descent parser walks.   *)
(***************************************************************************)
Num(v) == [k |-> "num", v |-> v]
Ref(row, col) == [k |-> "ref", row |-> row, col |-> col]
Bin(op, l, r) == [k |-> op, l |-> l, r |-> r]

\* The CellRange parse_range delivers: start <= end on both axes.
Range(r1, c1, r2, c2) ==
    [start_row |-> Min(r1, r2), start_col |-> Min(c1, c2),
     end_row |-> Max(r1, r2), end_col |-> Max(c1, c2)]

Func(name, range) == [k |-> "func", name |-> name, range |-> range]

\* VLOOKUP(key, table, col_index [, range_lookup]) as parse_function scans it:
\* lookup_str is NULL for a numeric key; exact_match is 0 when the fourth
\* argument is 0 or left out, 1 otherwise.
Vlookup(lookup_value, lookup_str, range, col_index, exact_match) ==
    [k |-> "vlookup", name |-> "VLOOKUP", lookup_value |-> lookup_value,
     lookup_str |-> lookup_str, range |-> range, col_index |-> col_index,
     exact_match |-> exact_match]

\* A call of a function that takes no range: name and opening parenthesis.
Call(name) == [k |-> "func", name |-> name]

ParseTree(expression) ==
    CASE expression = "=A1+1" -> Bin("add", Ref(0, 0), Num(1 * Scale))
      [] expression = "=B1+1" -> Bin("add", Ref(0, 1), Num(1 * Scale))
      [] expression = "=A2+1" -> Bin("add", Ref(1, 0), Num(1 * Scale))
      [] expression = "=1/A1" -> Bin("div", Num(1 * Scale), Ref(0, 0))
      [] expression = "=SUM(A1:AF32)" -> Func("SUM", Range(0, 0, 31, 31))
      [] expression = "=SUM(A1:B2)" -> Func("SUM", Range(0, 0, 1, 1))
      [] expression = "=MEDIAN(A1:B2)" -> Func("MEDIAN", Range(0, 0, 1, 1))
      [] expression = "=MODE(A1:B2)" -> Func("MODE", Range(0, 0, 1, 1))
      [] expression = "=IF(A1>5,\"High\",\"Low\")" -> Call("IF")
      [] expression = "=VLOOKUP(\"Apple\",A1:B2,2,0)" ->
            Vlookup(0, "Apple", Range(0, 0, 1, 1), 2, 0)
      [] expression = "=VLOOKUP(\"Grape\",A1:B2,2,0)" ->
            Vlookup(0, "Grape", Range(0, 0, 1, 1), 2, 0)
      [] expression = "=VLOOKUP(2,A1:B2,2,1)" ->
            Vlookup(2 * Scale, NULL, Range(0, 0, 1, 1), 2, 1)
      [] expression = "=VLOOKUP(2,A1:B2,2,0)" ->
            Vlookup(2 * Scale, NULL, Range(0, 0, 1, 1), 2, 0)
      [] expression = "=VLOOKUP(2,A1:B2,2)" ->
            Vlookup(2 * Scale, NULL, Range(0, 0, 1, 1), 2, 0)
      [] expression = "=VLOOKUP(1,A1:B2,2,0)" ->
            Vlookup(1 * Scale, NULL, Range(0, 0, 1, 1), 2, 0)
      [] expression = "=VLOOKUP(2,A1:B2,3,0)" ->
            Vlookup(2 * Scale, NULL, Range(0, 0, 1, 1), 3, 0)
      [] expression = "=VLOOKUP(2,A1:B2,0,1)" ->
            Vlookup(2 * Scale, NULL, Range(0, 0, 1, 1), 0, 1)
      [] OTHER -> [k |-> "bad"]

Ok(v) == [value |-> v, error |-> "ERROR_NONE"]
Err(e) == [value |-> 0, error |-> e]

\* double values[1000] of parse_function.
MAX_RANGE_VALUES == 1000

\* The switch of get_range_values: does the cell store a value into values?
RangeCellCounts(cell) ==
    IF ~cell.exists THEN TRUE
    ELSE CASE cell.type = "CELL_NUMBER" -> TRUE
           [] cell.type = "CELL_FORMULA" -> cell.error = "ERROR_NONE"
           [] cell.type = "CELL_EMPTY" -> TRUE
           [] OTHER -> FALSE

\* The value a counted cell stores.
RangeCellValue(cell) ==
    IF ~cell.exists THEN 0
    ELSE CASE cell.type = "CELL_NUMBER" -> cell.number
           [] cell.type = "CELL_FORMULA" -> cell.cached_value
           [] OTHER -> 0

\* The cells of the range in the order the two loops of get_range_values
\* visit them: row by row, every row from start_col to end_col.
RangeCells(sheet, range) ==
    With(range.end_col - range.start_col + 1, LAMBDA width :
      [k \in 1 .. (range.end_row - range.start_row + 1) * width |->
         sheet_get_cell(sheet, range.start_row + (k - 1) \div width,
                               range.start_col + ((k - 1) % width))])

\* Every visited cell stores at most one value, and once count reaches
\* max_values the inner loop breaks at the first cell of every row that is
\* left: the result is the values of the counted cells, in visiting order,
\* as far as there is room.
get_range_values(sheet, range, max_values) ==
    With(SelectSeq(RangeCells(sheet, range), RangeCellCounts), LAMBDA counted :
      [k \in 1 .. Min(Len(counted), max_values) |-> RangeCellValue(counted[k])])

\* values[lo] + ... + values[hi]; the loop of func_sum, split in halves.
RECURSIVE SumFromTo(_, _, _)
SumFromTo(values, lo, hi) ==
    IF lo > hi THEN 0
    ELSE IF lo = hi THEN values[lo]
    ELSE SumFromTo(values, lo, (lo + hi) \div 2)
            + SumFromTo(values, (lo + hi) \div 2 + 1, hi)

func_sum(values) == SumFromTo(values, 1, Len(values))

\* qsort with compare_double.
SortedValues(values) == SortSeq(values, LAMBDA a, b : a < b)

func_median(values) ==
    IF Len(values) = 0 THEN 0
    ELSE With(SortedValues(values), LAMBDA sorted :
           IF Len(values) % 2 = 0
           THEN (sorted[Len(values) \div 2] + sorted[Len(values) \div 2 + 1]) \div 2
           ELSE sorted[Len(values) \div 2 + 1])

\* The inner loop of func_mode: how many of values[i + 1 ..] equal values[i]
\* (fabs(difference) < 1e-10; the values of the model differ by 1/Scale or
\* more, or not at all), counting values[i] itself.
CountFrom(values, i) ==
    1 + Cardinality({j \in i + 1 .. Len(values) : values[i] = values[j]})

\* The outer loop of func_mode, from index i on.
RECURSIVE ModeFrom(_, _, _, _)
ModeFrom(values, i, mode, max_count) ==
    IF i > Len(values) THEN mode
    ELSE With(CountFrom(values, i), LAMBDA current_count :
           IF current_count > max_count
           THEN ModeFrom(values, i + 1, values[i], current_count)
           ELSE ModeFrom(values, i + 1, mode, max_count))

func_mode(values) ==
    IF Len(values) = 0 THEN 0 ELSE ModeFrom(values, 1, values[1], 1)

\* func_vlookup: is the cell a number or a formula without error?
VlookupNumeric(cell) ==
    \/ cell.type = "CELL_NUMBER"
    \/ cell.type = "CELL_FORMULA" /\ cell.error = "ERROR_NONE"

VlookupNumber(cell) ==
    IF cell.type = "CELL_NUMBER" THEN cell.number ELSE cell.cached_value

\* The approximate match without its inner loop.
FirstNotAbove(sheet, t, row, cell_value) == FALSE

\* The inner loop of the approximate match: a later row of the first column
\* holds a value that is at most the key and greater than cell_value.
BetterMatchLater(sheet, t, row, cell_value) ==
    \E next_row \in row + 1 .. t.range.end_row :
        With(sheet_get_cell(sheet, next_row, t.range.start_col), LAMBDA next_cell :
          /\ next_cell.exists
          /\ VlookupNumeric(next_cell)
          /\ VlookupNumber(next_cell) <= t.lookup_value
          /\ VlookupNumber(next_cell) > cell_value)

\* match_found of func_vlookup for an existing first-column cell.
MatchFound(sheet, t, row, lookup_cell) ==
    IF t.lookup_str # NULL
    THEN CASE lookup_cell.type = "CELL_STRING" -> lookup_cell.string = t.lookup_str
           [] lookup_cell.type = "CELL_FORMULA" /\ lookup_cell.is_string_result # 0
                /\ lookup_cell.cached_string # NULL ->
                lookup_cell.cached_string = t.lookup_str
           [] OTHER -> FALSE
    ELSE IF ~VlookupNumeric(lookup_cell) THEN FALSE
    ELSE IF t.exact_match # 0 THEN VlookupNumber(lookup_cell) = t.lookup_value
    ELSE /\ VlookupNumber(lookup_cell) <= t.lookup_value
         /\ ~BetterMatchLater(sheet, t, row, VlookupNumber(lookup_cell))

\* The switch on the result cell: does func_vlookup return from this row?
VlookupReturns(result_cell) ==
    \/ ~result_cell.exists
    \/ result_cell.type \in {"CELL_NUMBER", "CELL_EMPTY"}
    \/ result_cell.type = "CELL_FORMULA" /\ result_cell.error = "ERROR_NONE"

VlookupResult(result_cell) ==
    IF ~result_cell.exists THEN 0
    ELSE CASE result_cell.type = "CELL_NUMBER" -> result_cell.number
           [] result_cell.type = "CELL_FORMULA" -> result_cell.cached_value
           [] OTHER -> 0

\* The search loop of func_vlookup, from row on.
RECURSIVE VlookupFrom(_, _, _)
VlookupFrom(sheet, t, row) ==
    IF row > t.range.end_row THEN Err("ERROR_NA")
    ELSE With(sheet_get_cell(sheet, row, t.range.start_col), LAMBDA lookup_cell :
      With(sheet_get_cell(sheet, row, t.range.start_col + t.col_index - 1),
           LAMBDA result_cell :
             IF /\ lookup_cell.exists
                /\ MatchFound(sheet, t, row, lookup_cell)
                /\ VlookupReturns(result_cell)
             THEN Ok(VlookupResult(result_cell))
             ELSE VlookupFrom(sheet, t, row + 1)))

func_vlookup(sheet, t) ==
    IF t.col_index < 1 \/ t.col_index > t.range.end_col - t.range.start_col + 1
    THEN Err("ERROR_REF")
    ELSE VlookupFrom(sheet, t, t.range.start_row)

\* parse_function: VLOOKUP; SUM, MEDIAN and MODE over a range argument; a name none
\* of the branches of parse_function compares against, IF among them, falls
\* through to the parse error at its end.
parse_function(sheet, t) ==
    IF t.name = "VLOOKUP" THEN func_vlookup(sheet, t)
    ELSE IF t.name \in {"SUM", "MEDIAN", "MODE"}
    THEN With(get_range_values(sheet, t.range, MAX_RANGE_VALUES), LAMBDA values :
           CASE t.name = "SUM" -> Ok(func_sum(values))
             [] t.name = "MEDIAN" -> Ok(func_median(values))
             [] OTHER -> Ok(func_mode(values)))
    ELSE Err("ERROR_PARSE")

\* parse_factor: number literal, single cell reference or function call.
parse_factor(sheet, t) ==
    CASE t.k = "num" -> Ok(t.v)
      [] t.k = "ref" ->
           (With(sheet_get_cell(sheet, t.row, t.col), LAMBDA cell :
              IF ~cell.exists THEN Ok(0)
               ELSE CASE cell.type = "CELL_EMPTY" -> Ok(0)
                      [] cell.type = "CELL_NUMBER" -> Ok(cell.number)
                      [] cell.type = "CELL_FORMULA" ->
                           IF cell.error # "ERROR_NONE" THEN Err(cell.error)
                           ELSE Ok(cell.cached_value)
                      [] OTHER -> Err("ERROR_VALUE")))
      [] t.k \in {"func", "vlookup"} -> parse_function(sheet, t)
      [] OTHER -> Err("ERROR_PARSE")

\* parse_term: factor (('*'|'/') factor)*
parse_term(sheet, t) ==
    IF t.k \in {"mul", "div"}
    THEN With(parse_factor(sheet, t.l), LAMBDA l :
         With(parse_factor(sheet, t.r), LAMBDA r :
           IF l.error # "ERROR_NONE" THEN Err(l.error)
            ELSE IF r.error # "ERROR_NONE" THEN Err(r.error)
            ELSE IF t.k = "mul" THEN Ok((l.value * r.value) \div Scale)
            ELSE IF r.value = 0 THEN Err("ERROR_DIV_ZERO")
            ELSE Ok((l.value * Scale) \div r.value)))
    ELSE parse_factor(sheet, t)

\* parse_arithmetic_expression: term (('+'|'-') term)*
parse_arithmetic_expression(sheet, t) ==
    IF t.k \in {"add", "sub"}
    THEN With(parse_term(sheet, t.l), LAMBDA l :
         With(parse_term(sheet, t.r), LAMBDA r :
           IF l.error # "ERROR_NONE" THEN Err(l.error)
            ELSE IF r.error # "ERROR_NONE" THEN Err(r.error)
            ELSE IF t.k = "add" THEN Ok(l.value + r.value)
            ELSE Ok(l.value - r.value)))
    ELSE parse_term(sheet, t)

\* evaluate_formula: strips '=', then evaluate_comparison; with no comparison
\* operator the result is that of the arithmetic expression.
evaluate_formula(sheet, formula) ==
    parse_arithmetic_expression(sheet, ParseTree(formula))

(***************************************************************************)
(* Recalculation (sheet.h, sheet_recalculate): one row-major pass, gated   *)
(* by needs_recalc.                                                        *)
(***************************************************************************)
\* The scan of sheet_recalculate taken from the last cell to the first.
RECURSIVE RecalcBackFrom(_, _)
RecalcBackFrom(sheet, i) ==
    IF i >= sheet.rows * sheet.cols THEN sheet
    ELSE LET row == (sheet.rows * sheet.cols - 1 - i) \div sheet.cols
             col == (sheet.rows * sheet.cols - 1 - i) % sheet.cols IN
         With(sheet_get_cell(sheet, row, col), LAMBDA cell :
           IF cell.exists /\ cell.type = "CELL_FORMULA"
            THEN With(evaluate_formula(sheet, cell.expression), LAMBDA res :
                   With([sheet EXCEPT !.cells[<<row, col>>] =
                            [cell EXCEPT !.cached_value = res.value,
                                         !.error = res.error]],
                        LAMBDA evaluated : RecalcBackFrom(evaluated, i + 1)))
            ELSE RecalcBackFrom(sheet, i + 1))

RECURSIVE RecalcFrom(_, _)
RecalcFrom(sheet, i) ==
    IF i >= sheet.rows * sheet.cols THEN sheet
    ELSE LET row == i \div sheet.cols
             col == i % sheet.cols IN
         With(sheet_get_cell(sheet, row, col), LAMBDA cell :
           IF cell.exists /\ cell.type = "CELL_FORMULA"
            THEN With(evaluate_formula(sheet, cell.expression), LAMBDA res :
                   With([sheet EXCEPT !.cells[<<row, col>>] =
                            [cell EXCEPT !.cached_value = res.value,
                                         !.error = res.error]],
                        LAMBDA evaluated : RecalcFrom(evaluated, i + 1)))
            ELSE RecalcFrom(sheet, i + 1))

\* A recalculation that does not look at needs_recalc.
RecalculateAlways(sheet) == [RecalcFrom(sheet, 0) EXCEPT !.needs_recalc = 0]

sheet_recalculate(sheet) ==
    IF sheet.needs_recalc = 0 THEN sheet
    ELSE [RecalcFrom(sheet, 0) EXCEPT !.needs_recalc = 0]

(***************************************************************************)
(* Display (sheet.h, format_cell_value and the format_number_as_* family)  *)
(***************************************************************************)
TwoDigits(n) == IF n < 10 THEN "0" \o ToString(n) ELSE ToString(n)

\* snprintf("%.2f") of a fixed-point value given in hundredths.
Fixed2(h) ==
    IF h < 0 THEN "-" \o ToString((-h) \div 100) \o "." \o TwoDigits((-h) % 100)
    ELSE ToString(h \div 100) \o "." \o TwoDigits(h % 100)

\* Rounds a value in units of 1/Scale to hundredths (printf rounding).
Hundredths(v) ==
    IF v < 0 THEN -(((-v) * 100 + Scale \div 2) \div Scale)
    ELSE (v * 100 + Scale \div 2) \div Scale

format_number_as_percentage(value, precision) ==
    Fixed2(Hundredths(value * 100)) \o "%"

format_number_as_currency(value) ==
    IF value < 0 THEN "-$" \o Fixed2(Hundredths(-value))
    ELSE "$" \o Fixed2(Hundredths(value))

\* "%.*f" at precision 2, then trailing zeros and a trailing '.' removed.
FormatGeneral(value) ==
    With(Hundredths(value), LAMBDA h :
    LET a == IF h < 0 THEN -h ELSE h
        sign == IF value < 0 THEN "-" ELSE "" IN
      IF a % 100 = 0 THEN sign \o ToString(a \div 100)
       ELSE IF a % 10 = 0
            THEN sign \o ToString(a \div 100) \o "." \o ToString((a % 100) \div 10)
            ELSE sign \o ToString(a \div 100) \o "." \o TwoDigits(a % 100))

ErrorToken(error) ==
    CASE error = "ERROR_DIV_ZERO" -> "#DIV/0!"
      [] error = "ERROR_REF" -> "#REF!"
      [] error = "ERROR_VALUE" -> "#VALUE!"
      [] error = "ERROR_PARSE" -> "#PARSE!"
      [] error = "ERROR_NA" -> "#N/A!"
      [] OTHER -> "#ERROR!"

FormatValue(cell, value) ==
    CASE cell.format = "FORMAT_PERCENTAGE" ->
            format_number_as_percentage(value, cell.precision)
      [] cell.format = "FORMAT_CURRENCY" -> format_number_as_currency(value)
      [] OTHER -> FormatGeneral(value)

\* format_cell_value without its look at the error of a formula cell.
FormatCachedValue(cell) ==
    IF ~cell.exists \/ cell.type = "CELL_EMPTY" THEN ""
    ELSE CASE cell.type = "CELL_NUMBER" -> FormatValue(cell, cell.number)
           [] cell.type = "CELL_FORMULA" -> FormatValue(cell, cell.cached_value)
           [] cell.type = "CELL_STRING" -> cell.string
           [] OTHER -> ""

format_cell_value(cell) ==
    IF ~cell.exists \/ cell.type = "CELL_EMPTY" THEN ""
    ELSE CASE cell.type = "CELL_NUMBER" -> FormatValue(cell, cell.number)
           [] cell.type = "CELL_FORMULA" ->
                IF cell.error # "ERROR_NONE" THEN ErrorToken(cell.error)
                ELSE IF cell.is_string_result # 0 /\ cell.cached_string # NULL
                     THEN cell.cached_string
                     ELSE FormatValue(cell, cell.cached_value)
           [] cell.type = "CELL_STRING" -> cell.string
           [] OTHER -> ""

sheet_get_display_value(sheet, row, col) ==
    format_cell_value(sheet_get_cell(sheet, row, col))

(***************************************************************************)
(* Undo log (main.c): CellUndoData, RangeUndoData, UndoAction, UndoBuffer  *)
(*                                                                         *)
(* buffer.actions holds the slots of the C array that have been written so *)
(* far (slot i of the array is actions[i + 1]); the slots after them are   *)
(* still zero from undo_buffer_init.  Slots at or after count keep their   *)
(* stale contents, as in C.                                                *)
(***************************************************************************)
ZeroData ==
    [number |-> 0, string |-> NULL, expression |-> NULL, cached_value |-> 0,
     cached_string |-> NULL, is_string_result |-> 0, error |-> "ERROR_NONE"]

ZeroCellUndo ==
    [row |-> 0, col |-> 0,
     old_type |-> "CELL_EMPTY", new_type |-> "CELL_EMPTY",
     old_data |-> ZeroData, new_data |-> ZeroData,
     old_format |-> "FORMAT_GENERAL", old_format_style |-> 0,
     new_format |-> "FORMAT_GENERAL", new_format_style |-> 0,
     old_text_color |-> 0, old_background_color |-> 0,
     new_text_color |-> 0, new_background_color |-> 0]

ZeroRangeUndo ==
    [start_row |-> 0, start_col |-> 0, end_row |-> 0, end_col |-> 0,
     cell_data |-> <<>>, cell_count |-> 0]

ZeroAction ==
    [type |-> "UNDO_CELL_CHANGE", cell |-> ZeroCellUndo,
     range |-> ZeroRangeUndo, description |-> ""]

undo_buffer_init ==
    [actions |-> <<>>, current_index |-> 0, count |-> 0]

\* buffer->actions[i]
Slot(buffer, i) ==
    IF i + 1 <= Len(buffer.actions) THEN buffer.actions[i + 1] ELSE ZeroAction

\* buffer->actions[i] = action
SetSlot(buffer, i, action) ==
    [buffer EXCEPT !.actions =
        [j \in 1 .. Max(Len(buffer.actions), i + 1) |->
            IF j = i + 1 THEN action ELSE Slot(buffer, j - 1)]]

\* undo_free_cell_data: frees the owned strings and nulls the pointers.
undo_free_cell_data(data) ==
    LET d1 == IF data.old_type = "CELL_STRING"
              THEN [data EXCEPT !.old_data.string = NULL] ELSE data
        d2 == IF d1.old_type = "CELL_FORMULA"
              THEN [d1 EXCEPT !.old_data.expression = NULL,
                              !.old_data.cached_string = NULL] ELSE d1
        d3 == IF d2.new_type = "CELL_STRING"
              THEN [d2 EXCEPT !.new_data.string = NULL] ELSE d2
        d4 == IF d3.new_type = "CELL_FORMULA"
              THEN [d3 EXCEPT !.new_data.expression = NULL,
                              !.new_data.cached_string = NULL] ELSE d3
    IN d4

\* The per-type free of one UndoAction, as done in the discard loops.
FreeAction(action) ==
    CASE action.type = "UNDO_CELL_CHANGE" ->
            [action EXCEPT !.cell = undo_free_cell_data(action.cell)]
      [] action.type = "UNDO_RANGE_CHANGE" ->
            [action EXCEPT !.range.cell_data =
                [j \in 1 .. Len(action.range.cell_data) |->
                    undo_free_cell_data(action.range.cell_data[j])]]
      [] OTHER -> action

\* undo_copy_cell_data(src, dest): the before-state of one cell.
undo_copy_cell_data(src, dest) ==
    IF ~src.exists
    THEN [dest EXCEPT !.old_type = "CELL_EMPTY", !.old_data = ZeroData,
                      !.old_format = "FORMAT_GENERAL", !.old_format_style = 0,
                      !.old_text_color = -1, !.old_background_color = -1]
    ELSE [dest EXCEPT
            !.old_type = src.type,
            !.old_format = src.format,
            !.old_format_style = src.format_style,
            !.old_text_color = src.text_color,
            !.old_background_color = src.background_color,
            !.old_data =
               CASE src.type = "CELL_NUMBER" ->
                      [ZeroData EXCEPT !.number = src.number]
                 [] src.type = "CELL_STRING" ->
                      [ZeroData EXCEPT !.string = src.string]
                 [] src.type = "CELL_FORMULA" ->
                      [ZeroData EXCEPT
                          !.expression = src.expression,
                          !.cached_value = src.cached_value,
                          !.cached_string = src.cached_string,
                          !.is_string_result = src.is_string_result,
                          !.error = src.error]
                 [] OTHER -> ZeroData]

\* A record that forgets to shift the log when it is full.
ShiftDownNothing(buffer) == buffer.actions

\* An eviction that forgets to decrement count.
EvictOldestKeepsCount(buffer) ==
    IF buffer.count >= MAX_UNDO_ACTIONS
    THEN [buffer EXCEPT !.current_index = buffer.current_index - 1]
    ELSE buffer

\* A record that keeps the undone actions.
DiscardFutureNothing(buffer) == buffer

\* Discards the actions at and after the cursor (first loop of both
\* undo_save_* functions).
DiscardFuture(buffer) ==
    IF buffer.current_index < buffer.count
    THEN [buffer EXCEPT
            !.actions = [j \in 1 .. Len(buffer.actions) |->
                            IF j - 1 >= buffer.current_index /\ j - 1 < buffer.count
                            THEN FreeAction(buffer.actions[j])
                            ELSE buffer.actions[j]],
            !.count = buffer.current_index]
    ELSE buffer

\* memmove(&actions[0], &actions[1], sizeof(UndoAction) * (MAX - 1))
ShiftDown(buffer) ==
    [j \in 1 .. Len(buffer.actions) |->
        IF j <= MAX_UNDO_ACTIONS - 1 THEN Slot(buffer, j) ELSE buffer.actions[j]]

\* Evicts the oldest action when the buffer is full.
EvictOldest(buffer) ==
    IF buffer.count >= MAX_UNDO_ACTIONS
    THEN [buffer EXCEPT !.actions = ShiftDown(buffer),
                        !.count = buffer.count - 1,
                        !.current_index = buffer.current_index - 1]
    ELSE buffer

undo_save_cell_state(state, row, col, description) ==
    With(DiscardFuture(state.undo_buffer), LAMBDA b1 :
    With(EvictOldest(b1), LAMBDA b2 :
    With(Slot(b2, b2.count), LAMBDA action :
    With(sheet_get_cell(state.sheet, row, col), LAMBDA cell :
    With([action EXCEPT
                     !.type = "UNDO_CELL_CHANGE",
                     !.cell = undo_copy_cell_data(cell,
                                [action.cell EXCEPT !.row = row, !.col = col]),
                     !.description = description], LAMBDA filled :
    With(SetSlot(b2, b2.count, filled), LAMBDA b3 :
      [state EXCEPT !.undo_buffer =
            [b3 EXCEPT !.count = b2.count + 1,
                       !.current_index = b2.count + 1]]))))))

\* The cells of the rectangle in row-major order, as (row, col) pairs.
RowMajor(start_row, start_col, end_row, end_col) ==
    LET w == end_col - start_col + 1
        n == (end_row - start_row + 1) * w
    IN [k \in 1 .. n |-> <<start_row + ((k - 1) \div w), start_col + ((k - 1) % w)>>]

undo_save_range_state(state, start_row, start_col, end_row, end_col, description) ==
    LET cell_count == (end_row - start_row + 1) * (end_col - start_col + 1) IN
    With(DiscardFuture(state.undo_buffer), LAMBDA b1 :
    With(EvictOldest(b1), LAMBDA b2 :
    With(Slot(b2, b2.count), LAMBDA action :
    With(RowMajor(start_row, start_col, end_row, end_col), LAMBDA order :
    With([k \in 1 .. cell_count |->
                undo_copy_cell_data(
                    sheet_get_cell(state.sheet, order[k][1], order[k][2]),
                    [ZeroCellUndo EXCEPT !.row = order[k][1],
                                         !.col = order[k][2]])], LAMBDA cell_data :
    LET filled == [action EXCEPT
                     !.type = "UNDO_RANGE_CHANGE",
                     !.range = [start_row |-> start_row, start_col |-> start_col,
                                end_row |-> end_row, end_col |-> end_col,
                                cell_data |-> cell_data,
                                cell_count |-> cell_count],
                     !.description = description] IN
    With(SetSlot(b2, b2.count, filled), LAMBDA b3 :
      [state EXCEPT !.undo_buffer =
            [b3 EXCEPT !.count = b2.count + 1,
                       !.current_index = b2.count + 1]]))))))

\* undo_restore_cell_data: the sheet after restoring the before-state.
undo_restore_cell_data(sheet, src, row, col) ==
    With(sheet_clear_cell(sheet, row, col), LAMBDA s1 :
      IF src.old_type = "CELL_EMPTY" THEN s1
       ELSE With(sheet_get_or_create_cell(s1, row, col), LAMBDA s2 :
            With(sheet_get_cell(s2, row, col), LAMBDA cell :
              IF ~cell.exists THEN s2
               ELSE With(CASE src.old_type = "CELL_NUMBER" ->
                                 cell_set_number(cell, src.old_data.number)
                            [] src.old_type = "CELL_STRING" ->
                                 IF src.old_data.string # NULL
                                 THEN cell_set_string(cell, src.old_data.string)
                                 ELSE cell
                            [] src.old_type = "CELL_FORMULA" ->
                                 IF src.old_data.expression # NULL
                                 THEN cell_set_formula(cell, src.old_data.expression)
                                 ELSE cell
                            [] OTHER -> cell, LAMBDA c1 :
                    With(cell_set_format(c1, src.old_format, src.old_format_style), LAMBDA c2 :
                    With(cell_set_text_color(c2, src.old_text_color), LAMBDA c3 :
                    With(cell_set_background_color(c3, src.old_background_color), LAMBDA c4 :
                      [s2 EXCEPT !.cells[<<row, col>>] = c4])))))))

RECURSIVE RestoreRange(_, _, _)
RestoreRange(sheet, cell_data, i) ==
    IF i > Len(cell_data) THEN sheet
    ELSE RestoreRange(
            undo_restore_cell_data(sheet, cell_data[i],
                                   cell_data[i].row, cell_data[i].col),
            cell_data, i + 1)

\* The after-state captured into the record at undo time (for redo).
CaptureNewState(data, cell) ==
    IF cell.exists
    THEN [data EXCEPT
            !.new_type = cell.type,
            !.new_format = cell.format,
            !.new_format_style = cell.format_style,
            !.new_text_color = cell.text_color,
            !.new_background_color = cell.background_color,
            !.new_data =
               CASE cell.type = "CELL_NUMBER" ->
                      [data.new_data EXCEPT !.number = cell.number]
                 [] cell.type = "CELL_STRING" ->
                      [data.new_data EXCEPT !.string = cell.string]
                 [] cell.type = "CELL_FORMULA" ->
                      [data.new_data EXCEPT
                          !.expression = cell.expression,
                          !.cached_value = cell.cached_value,
                          !.cached_string = cell.cached_string,
                          !.is_string_result = cell.is_string_result,
                          !.error = cell.error]
                 [] OTHER -> ZeroData]
    ELSE [data EXCEPT
            !.new_type = "CELL_EMPTY",
            !.new_format = "FORMAT_GENERAL", !.new_format_style = 0,
            !.new_text_color = -1, !.new_background_color = -1,
            !.new_data = ZeroData]

undo_perform(state) ==
    LET buffer == state.undo_buffer
    IN IF buffer.current_index = 0
       THEN [state EXCEPT !.status_message = "Nothing to undo"]
       ELSE
         LET idx == buffer.current_index - 1 IN
         With(Slot(buffer, idx), LAMBDA action :
         With(sheet_get_cell(state.sheet, action.cell.row, action.cell.col), LAMBDA cell :
         With(IF action.type = "UNDO_CELL_CHANGE"
                THEN [action EXCEPT !.cell = CaptureNewState(action.cell, cell)]
                ELSE action, LAMBDA captured :
         With(CASE action.type = "UNDO_CELL_CHANGE" ->
                          undo_restore_cell_data(state.sheet, captured.cell,
                                                 captured.cell.row, captured.cell.col)
                     [] action.type = "UNDO_RANGE_CHANGE" ->
                          RestoreRange(state.sheet, action.range.cell_data, 1)
                     [] OTHER -> state.sheet, LAMBDA s1 :
           [state EXCEPT
               !.undo_buffer = [SetSlot(buffer, idx, captured)
                                   EXCEPT !.current_index = idx],
               !.sheet = sheet_recalculate(s1),
               !.status_message = "Undid: " \o action.description]))))

\* The UNDO_CELL_CHANGE arm of redo_perform.
RedoCell(sheet, data) ==
    With(sheet_clear_cell(sheet, data.row, data.col), LAMBDA s1 :
      IF data.new_type = "CELL_EMPTY" THEN s1
       ELSE With(sheet_get_or_create_cell(s1, data.row, data.col), LAMBDA s2 :
            With(sheet_get_cell(s2, data.row, data.col), LAMBDA cell :
              IF ~cell.exists THEN s2
               ELSE With(CASE data.new_type = "CELL_NUMBER" ->
                                 cell_set_number(cell, data.new_data.number)
                            [] data.new_type = "CELL_STRING" ->
                                 IF data.new_data.string # NULL
                                 THEN cell_set_string(cell, data.new_data.string)
                                 ELSE cell
                            [] data.new_type = "CELL_FORMULA" ->
                                 IF data.new_data.expression # NULL
                                 THEN cell_set_formula(cell, data.new_data.expression)
                                 ELSE cell
                            [] OTHER -> cell, LAMBDA c1 :
                    With(cell_set_format(c1, data.new_format, data.new_format_style), LAMBDA c2 :
                    With(cell_set_text_color(c2, data.new_text_color), LAMBDA c3 :
                    With(cell_set_background_color(c3, data.new_background_color), LAMBDA c4 :
                      [s2 EXCEPT !.cells[<<data.row, data.col>>] = c4])))))))

redo_perform(state) ==
    LET buffer == state.undo_buffer
    IN IF buffer.current_index >= buffer.count
       THEN [state EXCEPT !.status_message = "Nothing to redo"]
       ELSE
         With(Slot(buffer, buffer.current_index), LAMBDA action :
         With(CASE action.type = "UNDO_CELL_CHANGE" ->
                          RedoCell(state.sheet, action.cell)
                     [] action.type = "UNDO_RANGE_CHANGE" ->
                          RestoreRange(state.sheet, action.range.cell_data, 1)
                     [] OTHER -> state.sheet, LAMBDA s1 :
           [state EXCEPT
               !.undo_buffer.current_index = buffer.current_index + 1,
               !.sheet = sheet_recalculate(s1),
               !.status_message = "Redid: " \o action.description]))

(***************************************************************************)
(* The snapshot strings of the undo log (main.c). Beside the values of the *)
(* records, this is what the unions old_data and new_data of every slot    *)
(* hold as bytes, and what the allocator knows: word 0 of a union is the   *)
(* number, the string pointer or the formula expression pointer, which     *)
(* share their bytes; word 2 is the formula's cached_string pointer. The   *)
(* records of the log are all UNDO_CELL_CHANGE here.                       *)
(***************************************************************************)
Zero == [k |-> "zero", v |-> 0, rec |-> 0]

\* The bytes of a double, read as a pointer: null only for 0.0.
Bits(number) ==
    IF number = 0 THEN Zero ELSE [k |-> "bits", v |-> number, rec |-> 0]

\* The p-th string the log has allocated, by the rec-th record of the run.
Pointer(p, rec) == [k |-> "ptr", v |-> p, rec |-> rec]

ZeroSlotMem ==
    [rec |-> 0, old_type |-> "CELL_EMPTY", new_type |-> "CELL_EMPTY",
     old0 |-> Zero, old2 |-> Zero, new0 |-> Zero, new2 |-> Zero]

\* After undo_buffer_init: no slot written, nothing allocated.
mem_init ==
    [slots |-> <<>>, live |-> {}, next |-> 1, records |-> 0, freed |-> <<>>]

MemSlot(mem, i) ==
    IF i + 1 <= Len(mem.slots) THEN mem.slots[i + 1] ELSE ZeroSlotMem

SetMemSlot(mem, i, slot) ==
    [mem EXCEPT !.slots =
        [j \in 1 .. Max(Len(mem.slots), i + 1) |->
            IF j = i + 1 THEN slot ELSE MemSlot(mem, j - 1)]]

\* n calls of _strdup: the strings mem.next .. mem.next + n - 1 are live.
Allocated(mem, n) ==
    [mem EXCEPT !.live = @ \cup (mem.next .. mem.next + n - 1),
                !.next = @ + n]

\* "if (word) free(word)" by the record rec. The call is in order when word
\* is a pointer to a live string that the same record allocated.
Free(mem, word, rec) ==
    IF word.k = "zero" THEN mem
    ELSE [mem EXCEPT
            !.live = IF word.k = "ptr" THEN @ \ {word.v} ELSE @,
            !.freed = Append(@, [word |-> word, by |-> rec,
                                 owned |-> /\ word.k = "ptr"
                                           /\ word.v \in mem.live
                                           /\ word.rec = rec])]

\* undo_free_cell_data on slot i: frees by old_type and new_type, and nulls
\* the pointers it freed.
MemFreeCellData(mem, i) ==
    With(MemSlot(mem, i), LAMBDA s :
    With(IF s.old_type = "CELL_STRING" THEN Free(mem, s.old0, s.rec)
         ELSE IF s.old_type = "CELL_FORMULA"
         THEN Free(Free(mem, s.old0, s.rec), s.old2, s.rec)
         ELSE mem, LAMBDA m1 :
    With(IF s.new_type = "CELL_STRING" THEN Free(m1, s.new0, s.rec)
         ELSE IF s.new_type = "CELL_FORMULA"
         THEN Free(Free(m1, s.new0, s.rec), s.new2, s.rec)
         ELSE m1, LAMBDA m2 :
      SetMemSlot(m2, i,
         [s EXCEPT
            !.old0 = IF s.old_type \in {"CELL_STRING", "CELL_FORMULA"}
                     THEN Zero ELSE @,
            !.old2 = IF s.old_type = "CELL_FORMULA" THEN Zero ELSE @,
            !.new0 = IF s.new_type \in {"CELL_STRING", "CELL_FORMULA"}
                     THEN Zero ELSE @,
            !.new2 = IF s.new_type = "CELL_FORMULA" THEN Zero ELSE @]))))

\* The loop that frees the actions i .. count - 1.
RECURSIVE MemFreeFrom(_, _, _)
MemFreeFrom(mem, i, count) ==
    IF i >= count THEN mem
    ELSE MemFreeFrom(MemFreeCellData(mem, i), i + 1, count)

\* The first loop of undo_save_cell_state.
MemDiscardFuture(mem, buffer) ==
    IF buffer.current_index < buffer.count
    THEN MemFreeFrom(mem, buffer.current_index, buffer.count)
    ELSE mem

\* The eviction of undo_save_cell_state: frees the oldest action, then the
\* memmove, which leaves the last slot as it was.
MemEvictOldest(mem, buffer) ==
    IF buffer.count >= MAX_UNDO_ACTIONS
    THEN With(MemFreeCellData(mem, 0), LAMBDA m1 :
           [m1 EXCEPT !.slots =
               [j \in 1 .. Len(m1.slots) |->
                   IF j <= MAX_UNDO_ACTIONS - 1 THEN MemSlot(m1, j)
                   ELSE m1.slots[j]]])
    ELSE mem

\* undo_copy_cell_data into a slot: the old_ fields and nothing else.
MemCopyCellData(mem, i, src, rec) ==
    With(MemSlot(mem, i), LAMBDA s :
      IF ~src.exists
      THEN SetMemSlot(mem, i, [s EXCEPT !.rec = rec, !.old_type = "CELL_EMPTY",
                                        !.old0 = Zero, !.old2 = Zero])
      ELSE CASE src.type = "CELL_NUMBER" ->
                  SetMemSlot(mem, i, [s EXCEPT !.rec = rec, !.old_type = src.type,
                                               !.old0 = Bits(src.number)])
             [] src.type = "CELL_STRING" ->
                  (IF src.string # NULL
                   THEN SetMemSlot(Allocated(mem, 1), i,
                           [s EXCEPT !.rec = rec, !.old_type = src.type,
                                     !.old0 = Pointer(mem.next, rec)])
                   ELSE SetMemSlot(mem, i,
                           [s EXCEPT !.rec = rec, !.old_type = src.type,
                                     !.old0 = Zero]))
             [] src.type = "CELL_FORMULA" ->
                  (With(IF src.expression # NULL THEN 1 ELSE 0, LAMBDA n :
                   With(IF src.cached_string # NULL THEN 1 ELSE 0, LAMBDA c :
                     SetMemSlot(Allocated(mem, n + c), i,
                        [s EXCEPT !.rec = rec, !.old_type = src.type,
                                  !.old0 = IF n = 1 THEN Pointer(mem.next, rec)
                                           ELSE Zero,
                                  !.old2 = IF c = 1 THEN Pointer(mem.next + n, rec)
                                           ELSE Zero]))))
             [] OTHER ->
                  SetMemSlot(mem, i, [s EXCEPT !.rec = rec, !.old_type = src.type,
                                               !.old0 = Zero, !.old2 = Zero]))

\* undo_save_cell_state: discard, evict, then the copy into actions[count].
MemSaveCellState(mem, state, row, col) ==
    With(MemDiscardFuture(mem, state.undo_buffer), LAMBDA m1 :
    With(DiscardFuture(state.undo_buffer), LAMBDA b1 :
    With(MemEvictOldest(m1, b1), LAMBDA m2 :
    With(EvictOldest(b1), LAMBDA b2 :
      MemCopyCellData([m2 EXCEPT !.records = @ + 1], b2.count,
                      sheet_get_cell(state.sheet, row, col), m2.records + 1)))))

\* The UNDO_CELL_CHANGE arm of undo_perform: the after-state goes into the
\* new_ fields of the action under the cursor of the log.
MemUndoPerform(mem, state) ==
    IF state.undo_buffer.current_index = 0 THEN mem
    ELSE With(state.undo_buffer.current_index - 1, LAMBDA i :
      With(Slot(state.undo_buffer, i), LAMBDA action :
      With(MemSlot(mem, i), LAMBDA s :
      With(sheet_get_cell(state.sheet, action.cell.row, action.cell.col),
           LAMBDA cell :
        IF action.type # "UNDO_CELL_CHANGE" THEN mem
        ELSE IF ~cell.exists
        THEN SetMemSlot(mem, i, [s EXCEPT !.new_type = "CELL_EMPTY",
                                          !.new0 = Zero, !.new2 = Zero])
        ELSE CASE cell.type = "CELL_NUMBER" ->
                    SetMemSlot(mem, i, [s EXCEPT !.new_type = cell.type,
                                                 !.new0 = Bits(cell.number)])
               [] cell.type = "CELL_STRING" ->
                    (With(Free(mem, s.new0, s.rec), LAMBDA m1 :
                       IF cell.string # NULL
                       THEN SetMemSlot(Allocated(m1, 1), i,
                               [s EXCEPT !.new_type = cell.type,
                                         !.new0 = Pointer(m1.next, s.rec)])
                       ELSE SetMemSlot(m1, i,
                               [s EXCEPT !.new_type = cell.type, !.new0 = Zero])))
               [] cell.type = "CELL_FORMULA" ->
                    (With(Free(Free(mem, s.new0, s.rec), s.new2, s.rec),
                          LAMBDA m1 :
                     With(IF cell.expression # NULL THEN 1 ELSE 0, LAMBDA n :
                     With(IF cell.cached_string # NULL THEN 1 ELSE 0, LAMBDA c :
                       SetMemSlot(Allocated(m1, n + c), i,
                          [s EXCEPT !.new_type = cell.type,
                                    !.new0 = IF n = 1 THEN Pointer(m1.next, s.rec)
                                             ELSE Zero,
                                    !.new2 = IF c = 1
                                             THEN Pointer(m1.next + n, s.rec)
                                             ELSE Zero])))))
               [] OTHER ->
                    SetMemSlot(mem, i, [s EXCEPT !.new_type = cell.type,
                                                 !.new0 = Zero, !.new2 = Zero])))))

\* What one operation does to the strings of the log; freed lists the calls
\* of free of this operation.
MemStep(mem, state, op) ==
    With([mem EXCEPT !.freed = <<>>], LAMBDA m :
      CASE op.name \in {"input", "clear"} ->
             MemSaveCellState(m, state, state.cursor_row, state.cursor_col)
        [] op.name = "undo" -> MemUndoPerform(m, state)
        [] OTHER -> m)

(***************************************************************************)
(* Reference codec (sheet.h, cell_reference_to_string)                     *)
(***************************************************************************)
Letters ==
    <<"A", "B", "C", "D", "E", "F", "G", "H", "I", "J", "K", "L", "M",
      "N", "O", "P", "Q", "R", "S", "T", "U", "V", "W", "X", "Y", "Z">>

\* The letters of a 1-based column number, most significant first.
RECURSIVE ColumnLetters(_)
ColumnLetters(col) ==
    IF col <= 0 THEN ""
    ELSE ColumnLetters((col - 1) \div 26) \o Letters[((col - 1) % 26) + 1]

cell_reference_to_string(row, col) ==
    ColumnLetters(col + 1) \o ToString(row + 1)

Digits == <<"0", "1", "2", "3", "4", "5", "6", "7", "8", "9">>

\* The characters %d prints for a number that is not negative.
RECURSIVE DecimalChars(_)
DecimalChars(n) ==
    IF n < 10 THEN <<Digits[n + 1]>>
    ELSE Append(DecimalChars(n \div 10), Digits[(n % 10) + 1])

\* Column letters that take col % 26 of the 1-based number as it stands.
RECURSIVE ColumnCharsFromOne(_)
ColumnCharsFromOne(col) ==
    IF col <= 0 THEN <<>>
    ELSE Append(ColumnCharsFromOne(col \div 26), Letters[(col % 26) + 1])

\* colStr after the reversal, for a 1-based column number, as characters.
RECURSIVE ColumnChars(_)
ColumnChars(col) ==
    IF col <= 0 THEN <<>>
    ELSE Append(ColumnChars((col - 1) \div 26), Letters[((col - 1) % 26) + 1])

\* The characters cell_reference_to_string leaves in its buffer.
LabelChars(row, col) == ColumnChars(col + 1) \o DecimalChars(row + 1)

IsAlpha(ch) == \E i \in 1 .. 26 : Letters[i] = ch
IsDigit(ch) == \E i \in 1 .. 10 : Digits[i] = ch
LetterValue(ch) == CHOOSE i \in 1 .. 26 : Letters[i] = ch
DigitValue(ch) == (CHOOSE i \in 1 .. 10 : Digits[i] = ch) - 1

\* The largest value of an int.
INT_MAX == 2147483647

\* The letter loop of parse_cell_reference from position i on. A run of
\* letters that takes col beyond INT_MAX (seven letters and more) is a
\* column of no grid: col stays where it is, above every column number.
RECURSIVE ParseLetters(_, _, _)
ParseLetters(ref, i, col) ==
    IF i <= Len(ref) /\ IsAlpha(ref[i])
    THEN ParseLetters(ref, i + 1,
                      IF col > (INT_MAX - 26) \div 26 THEN col
                      ELSE col * 26 + LetterValue(ref[i]))
    ELSE [i |-> i, col |-> col]

\* The digit loop of parse_cell_reference from position i on.
RECURSIVE ParseDigits(_, _, _)
ParseDigits(ref, i, row) ==
    IF i <= Len(ref) /\ IsDigit(ref[i])
    THEN ParseDigits(ref, i + 1, row * 10 + DigitValue(ref[i]))
    ELSE [i |-> i, row |-> row]

NoReference == [ok |-> 0, row |-> 0, col |-> 0]

\* parse_cell_reference over the characters of ref (no blanks around it).
parse_cell_reference(ref) ==
    IF ref = <<>> \/ ~IsAlpha(ref[1]) THEN NoReference
    ELSE With(ParseLetters(ref, 1, 0), LAMBDA letters :
      IF letters.i > Len(ref) \/ ~IsDigit(ref[letters.i]) THEN NoReference
      ELSE With(ParseDigits(ref, letters.i, 0), LAMBDA digits :
        IF digits.i <= Len(ref) THEN NoReference
        ELSE [ok |-> 1, row |-> digits.row - 1, col |-> letters.col - 1]))

(***************************************************************************)
(* The evaluator over the characters of an expression (sheet.h,            *)
(* evaluate_formula and the recursive-descent parser under it). m is the   *)
(* memory from the first character of the expression on: the text, its     *)
(* terminating NUL and the bytes that lie behind the terminator. A scan    *)
(* result is the position *expr is left at, the value returned and *error. *)
(* Letters are upper case and numbers are runs of digits.                  *)
(***************************************************************************)
NUL == "NUL"

Byte(m, i) == IF i >= 1 /\ i <= Len(m) THEN m[i] ELSE NUL

Scan(pos, value, error) == [pos |-> pos, value |-> value, error |-> error]

\* The end of a loop "while (*p && InClass(*p) && n < limit) p++" from pos.
RunEnd(m, pos, limit, InClass(_)) ==
    CHOOSE e \in pos .. pos + limit :
        /\ \A i \in pos .. e - 1 : InClass(Byte(m, i))
        /\ e = pos + limit \/ ~InClass(Byte(m, e))

IsSpace(ch) == ch = " "
IsAlnum(ch) == IsAlpha(ch) \/ IsDigit(ch)
IsRefChar(ch) == IsAlpha(ch) \/ IsDigit(ch) \/ ch = ":"
NotQuote(ch) == ch # NUL /\ ch # "\""
NotComma(ch) == ch # NUL /\ ch # ","
NotColon(ch) == ch # NUL /\ ch # ":"

skip_whitespace(m, pos) == RunEnd(m, pos, Len(m) + 1, IsSpace)

\* The C string the characters spell.
RECURSIVE Concat(_)
Concat(chars) ==
    IF chars = <<>> THEN "" ELSE Head(chars) \o Concat(Tail(chars))

NoRange == [ok |-> 0, range |-> Range(0, 0, 0, 0)]

\* parse_range: start_ref[16] up to the first ':', the rest is the end.
parse_range(range_str) ==
    With(RunEnd(range_str, 1, Len(range_str), NotColon), LAMBDA colon :
      IF colon > Len(range_str) THEN NoRange
      ELSE IF colon - 1 >= 16 THEN NoRange
      ELSE With(parse_cell_reference(SubSeq(range_str, 1, colon - 1)), LAMBDA s :
           With(parse_cell_reference(SubSeq(range_str, colon + 1, Len(range_str))),
                LAMBDA e :
             IF s.ok = 0 \/ e.ok = 0 THEN NoRange
             ELSE [ok |-> 1, range |-> Range(s.row, s.col, e.row, e.col)])))

func_avg(values) ==
    IF Len(values) = 0 THEN 0 ELSE func_sum(values) \div Len(values)

func_max(values) ==
    IF Len(values) = 0 THEN 0
    ELSE CHOOSE v \in {values[i] : i \in 1 .. Len(values)} :
             \A i \in 1 .. Len(values) : values[i] <= v

func_min(values) ==
    IF Len(values) = 0 THEN 0
    ELSE CHOOSE v \in {values[i] : i \in 1 .. Len(values)} :
             \A i \in 1 .. Len(values) : values[i] >= v

\* pow(base, exponent) for a whole exponent that is not negative.
RECURSIVE PowerFrom(_, _)
PowerFrom(base, n) ==
    IF n <= 0 THEN Scale ELSE (PowerFrom(base, n - 1) * base) \div Scale

func_power(base, exponent) == PowerFrom(base, exponent \div Scale)

SUM == <<"S", "U", "M">>
AVG == <<"A", "V", "G">>
MAX == <<"M", "A", "X">>
MIN == <<"M", "I", "N">>
MEDIAN == <<"M", "E", "D", "I", "A", "N">>
MODE == <<"M", "O", "D", "E">>
POWER == <<"P", "O", "W", "E", "R">>
VLOOKUP == <<"V", "L", "O", "O", "K", "U", "P">>

AggregateNames == {SUM, AVG, MAX, MIN, MEDIAN, MODE}

\* The call at the end of the aggregate branch of parse_function.
Aggregate(func_name, values) ==
    CASE func_name = SUM -> func_sum(values)
      [] func_name = AVG -> func_avg(values)
      [] func_name = MAX -> func_max(values)
      [] func_name = MIN -> func_min(values)
      [] func_name = MEDIAN -> func_median(values)
      [] OTHER -> func_mode(values)

\* The scan for the end of the argument of an aggregate: it stops at the
\* parenthesis that closes the call, or at the terminating NUL.
RECURSIVE ArgEnd(_, _, _)
ArgEnd(m, arg_end, paren_count) ==
    IF Byte(m, arg_end) = NUL \/ paren_count <= 0 THEN arg_end
    ELSE With(CASE Byte(m, arg_end) = "(" -> paren_count + 1
                [] Byte(m, arg_end) = ")" -> paren_count - 1
                [] OTHER -> paren_count, LAMBDA count :
           IF count > 0 THEN ArgEnd(m, arg_end + 1, count) ELSE arg_end)

NoValues(error) == [values |-> <<>>, error |-> error]
Values(values) == [values |-> values, error |-> "ERROR_NONE"]

\* values[] and value_count for the argument of an aggregate: a range, a
\* single cell, or a number that strtod consumes to the end of arg.
AggregateValues(sheet, arg) ==
    IF \E i \in 1 .. Len(arg) : arg[i] = ":"
    THEN With(parse_range(arg), LAMBDA r :
           IF r.ok = 1
           THEN Values(get_range_values(sheet, r.range, MAX_RANGE_VALUES))
           ELSE NoValues("ERROR_PARSE"))
    ELSE With(parse_cell_reference(arg), LAMBDA ref :
      IF ref.ok = 1
      THEN With(sheet_get_cell(sheet, ref.row, ref.col), LAMBDA cell :
             IF ~cell.exists THEN Values(<<0>>)
             ELSE CASE cell.type = "CELL_NUMBER" -> Values(<<cell.number>>)
                    [] cell.type = "CELL_FORMULA" ->
                         IF cell.error = "ERROR_NONE"
                         THEN Values(<<cell.cached_value>>) ELSE Values(<<>>)
                    [] cell.type = "CELL_EMPTY" -> Values(<<0>>)
                    [] OTHER -> NoValues("ERROR_VALUE"))
      ELSE With(ParseDigits(arg, 1, 0), LAMBDA number :
             IF number.i > Len(arg) THEN Values(<<number.row * Scale>>)
             ELSE NoValues("ERROR_PARSE")))

\* The table strcmp orders the strings of the scenarios by.
StringOrder == <<"", "AB", "ABC">>

strcmp(a, b) ==
    With(CHOOSE i \in 1 .. Len(StringOrder) : StringOrder[i] = a, LAMBDA i :
    With(CHOOSE j \in 1 .. Len(StringOrder) : StringOrder[j] = b, LAMBDA j :
      IF i < j THEN -1 ELSE IF i > j THEN 1 ELSE 0))

\* get_cell_string_value for a reference that parse_cell_reference accepted.
get_cell_string_value(sheet, ref) ==
    With(sheet_get_cell(sheet, ref.row, ref.col), LAMBDA cell :
      IF ~cell.exists THEN NULL
      ELSE CASE cell.type = "CELL_STRING" -> cell.string
             [] cell.type = "CELL_FORMULA" ->
                  IF cell.is_string_result # 0 /\ cell.cached_string # NULL
                  THEN cell.cached_string ELSE NULL
             [] OTHER -> NULL)

RECURSIVE parse_expression_at(_, _, _)
RECURSIVE parse_term_at(_, _, _)
RECURSIVE parse_factor_at(_, _, _)
RECURSIVE parse_function_at(_, _, _)

\* The aggregate branch of parse_function, *expr behind the '('.
ParseAggregate(sheet, m, pos, func_name) ==
    With(skip_whitespace(m, pos), LAMBDA arg_start :
    With(ArgEnd(m, arg_start, 1), LAMBDA arg_end :
      IF arg_end - arg_start >= 256 THEN Scan(arg_start, 0, "ERROR_PARSE")
      ELSE With(AggregateValues(sheet, SubSeq(m, arg_start, arg_end - 1)),
                LAMBDA v :
             IF v.error # "ERROR_NONE" THEN Scan(arg_start, 0, v.error)
             ELSE Scan(arg_end + 1, Aggregate(func_name, v.values),
                       "ERROR_NONE"))))

\* The POWER branch of parse_function, *expr behind the '('.
ParsePower(sheet, m, pos) ==
    With(parse_expression_at(sheet, m, skip_whitespace(m, pos)), LAMBDA base :
      IF base.error # "ERROR_NONE" THEN Scan(base.pos, 0, base.error)
      ELSE With(skip_whitespace(m, base.pos), LAMBDA comma :
        IF Byte(m, comma) # "," THEN Scan(comma, 0, "ERROR_PARSE")
        ELSE With(parse_expression_at(sheet, m, comma + 1), LAMBDA exponent :
          IF exponent.error # "ERROR_NONE"
          THEN Scan(exponent.pos, 0, exponent.error)
          ELSE With(skip_whitespace(m, exponent.pos), LAMBDA close :
            IF Byte(m, close) # ")" THEN Scan(close, 0, "ERROR_PARSE")
            ELSE Scan(close + 1, func_power(base.value, exponent.value),
                      "ERROR_NONE")))))

\* The lookup value of VLOOKUP: a string literal or a numeric expression.
VlookupKey(sheet, m, pos) ==
    IF Byte(m, pos) = "\""
    THEN With(RunEnd(m, pos + 1, 255, NotQuote), LAMBDA quote :
           IF Byte(m, quote) = "\""
           THEN [pos |-> quote + 1, value |-> 0, error |-> "ERROR_NONE",
                 str |-> Concat(SubSeq(m, pos + 1, quote - 1))]
           ELSE [pos |-> quote, value |-> 0, error |-> "ERROR_PARSE",
                 str |-> NULL])
    ELSE With(parse_expression_at(sheet, m, pos), LAMBDA r :
           [pos |-> r.pos, value |-> IF r.error = "ERROR_NONE" THEN r.value ELSE 0,
            error |-> r.error, str |-> NULL])

\* The optional range_lookup argument of VLOOKUP.
VlookupMode(sheet, m, pos) ==
    IF Byte(m, pos) = ","
    THEN With(parse_expression_at(sheet, m, skip_whitespace(m, pos + 1)),
              LAMBDA r :
           Scan(r.pos, IF r.value = 0 THEN 0 ELSE 1, r.error))
    ELSE Scan(pos, 0, "ERROR_NONE")

\* The VLOOKUP branch of parse_function, *expr behind the '('.
ParseVlookup(sheet, m, pos) ==
    With(VlookupKey(sheet, m, skip_whitespace(m, pos)), LAMBDA key :
      IF key.error # "ERROR_NONE" THEN Scan(key.pos, 0, key.error)
      ELSE With(skip_whitespace(m, key.pos), LAMBDA comma :
        IF Byte(m, comma) # "," THEN Scan(comma, 0, "ERROR_PARSE")
        ELSE With(skip_whitespace(m, comma + 1), LAMBDA range_start :
             With(RunEnd(m, range_start, 63, NotComma), LAMBDA range_end :
             With(skip_whitespace(m, range_end), LAMBDA second :
          IF Byte(m, second) # "," THEN Scan(second, 0, "ERROR_PARSE")
          ELSE With(parse_expression_at(sheet, m, skip_whitespace(m, second + 1)),
                    LAMBDA index :
            IF index.error # "ERROR_NONE" THEN Scan(index.pos, 0, index.error)
            ELSE With(VlookupMode(sheet, m, skip_whitespace(m, index.pos)),
                      LAMBDA mode :
              IF mode.error # "ERROR_NONE" THEN Scan(mode.pos, 0, mode.error)
              ELSE With(skip_whitespace(m, mode.pos), LAMBDA close :
                IF Byte(m, close) # ")" THEN Scan(close, 0, "ERROR_PARSE")
                ELSE With(parse_range(SubSeq(m, range_start, range_end - 1)),
                          LAMBDA table :
                  IF table.ok = 0 THEN Scan(close + 1, 0, "ERROR_REF")
                  ELSE With(func_vlookup(sheet,
                                 Vlookup(key.value, key.str, table.range,
                                         index.value \div Scale, mode.value)),
                            LAMBDA r : Scan(close + 1, r.value, r.error)))))))))))

\* parse_function: the name, the '(' and the branch of the name.
parse_function_at(sheet, m, pos) ==
    With(skip_whitespace(m, pos), LAMBDA start :
    With(RunEnd(m, start, 31, IsAlpha), LAMBDA name_end :
    With(skip_whitespace(m, name_end), LAMBDA open :
      IF Byte(m, open) # "(" THEN Scan(open, 0, "ERROR_PARSE")
      ELSE With(SubSeq(m, start, name_end - 1), LAMBDA func_name :
        IF func_name = VLOOKUP THEN ParseVlookup(sheet, m, open + 1)
        ELSE IF func_name \in AggregateNames
        THEN ParseAggregate(sheet, m, open + 1, func_name)
        ELSE IF func_name = POWER THEN ParsePower(sheet, m, open + 1)
        ELSE Scan(open + 1, 0, "ERROR_PARSE")))))

\* The tail of parse_factor: the characters of a reference or range in
\* ref_buf, or else a number.
FactorOperand(sheet, m, start) ==
    With(RunEnd(m, start, 31, IsRefChar), LAMBDA ref_end :
    With(SubSeq(m, start, ref_end - 1), LAMBDA ref_buf :
    With(ParseDigits(m, start, 0), LAMBDA number :
    With(IF number.i > start
         THEN Scan(number.i, number.row * Scale, "ERROR_NONE")
         ELSE Scan(start, 0, "ERROR_PARSE"), LAMBDA literal :
      IF ref_end = start THEN literal
      ELSE IF \E i \in 1 .. Len(ref_buf) : ref_buf[i] = ":"
      THEN With(parse_range(ref_buf), LAMBDA r :
             IF r.ok = 1
             THEN Scan(ref_end,
                       func_sum(get_range_values(sheet, r.range, MAX_RANGE_VALUES)),
                       "ERROR_NONE")
             ELSE Scan(ref_end, 0, "ERROR_PARSE"))
      ELSE With(parse_cell_reference(ref_buf), LAMBDA ref :
             IF ref.ok = 1
             THEN With(parse_factor(sheet, Ref(ref.row, ref.col)), LAMBDA r :
                    Scan(ref_end, r.value, r.error))
             ELSE literal)))))

\* parse_factor: '(' expression ')', a function call, or an operand.
parse_factor_at(sheet, m, pos) ==
    With(skip_whitespace(m, pos), LAMBDA start :
      IF Byte(m, start) = "("
      THEN With(parse_expression_at(sheet, m, start + 1), LAMBDA r :
             IF r.error # "ERROR_NONE" THEN Scan(r.pos, 0, r.error)
             ELSE With(skip_whitespace(m, r.pos), LAMBDA close :
                    IF Byte(m, close) # ")" THEN Scan(close, 0, "ERROR_PARSE")
                    ELSE Scan(close + 1, r.value, "ERROR_NONE")))
      ELSE IF Byte(m, skip_whitespace(m, RunEnd(m, start, Len(m) + 1, IsAlpha))) = "("
      THEN parse_function_at(sheet, m, start)
      ELSE FactorOperand(sheet, m, start))

\* The while (1) of parse_term behind the factor whose result is acc.
RECURSIVE TermLoop(_, _, _)
TermLoop(sheet, m, acc) ==
    With(skip_whitespace(m, acc.pos), LAMBDA p :
      IF Byte(m, p) = "*" \/ Byte(m, p) = "/"
      THEN With(parse_factor_at(sheet, m, p + 1), LAMBDA right :
             IF right.error # "ERROR_NONE" THEN Scan(right.pos, 0, right.error)
             ELSE IF Byte(m, p) = "*"
             THEN TermLoop(sheet, m, Scan(right.pos,
                                          (acc.value * right.value) \div Scale,
                                          "ERROR_NONE"))
             ELSE IF right.value = 0 THEN Scan(right.pos, 0, "ERROR_DIV_ZERO")
             ELSE TermLoop(sheet, m, Scan(right.pos,
                                          (acc.value * Scale) \div right.value,
                                          "ERROR_NONE")))
      ELSE Scan(p, acc.value, "ERROR_NONE"))

parse_term_at(sheet, m, pos) ==
    With(parse_factor_at(sheet, m, pos), LAMBDA factor :
      IF factor.error # "ERROR_NONE" THEN Scan(factor.pos, 0, factor.error)
      ELSE TermLoop(sheet, m, factor))

\* The while (1) of parse_arithmetic_expression behind the first term.
RECURSIVE ExpressionLoop(_, _, _)
ExpressionLoop(sheet, m, acc) ==
    With(skip_whitespace(m, acc.pos), LAMBDA p :
      IF Byte(m, p) = "+" \/ Byte(m, p) = "-"
      THEN With(parse_term_at(sheet, m, p + 1), LAMBDA right :
             IF right.error # "ERROR_NONE" THEN Scan(right.pos, 0, right.error)
             ELSE ExpressionLoop(sheet, m,
                    Scan(right.pos,
                         IF Byte(m, p) = "+" THEN acc.value + right.value
                         ELSE acc.value - right.value,
                         "ERROR_NONE")))
      ELSE Scan(p, acc.value, "ERROR_NONE"))

parse_expression_at(sheet, m, pos) ==
    With(parse_term_at(sheet, m, pos), LAMBDA term :
      IF term.error # "ERROR_NONE" THEN Scan(term.pos, 0, term.error)
      ELSE ExpressionLoop(sheet, m, term))

\* comparison_op of evaluate_comparison: one of = < >, then = or the > of <>.
ComparisonOp(m, pos) ==
    IF Byte(m, pos) \in {"=", "<", ">"}
    THEN IF Byte(m, pos + 1) = "=" \/ (Byte(m, pos + 1) = ">" /\ Byte(m, pos) = "<")
         THEN <<Byte(m, pos), Byte(m, pos + 1)>>
         ELSE <<Byte(m, pos)>>
    ELSE <<>>

Truth(b) == IF b THEN Scale ELSE 0

\* cell_ref op "string": the literal runs to the closing quote or to the NUL.
StringComparison(sheet, m, ref, op, quote) ==
    With(RunEnd(m, quote + 1, 255, NotQuote), LAMBDA right_end :
    With(Concat(SubSeq(m, quote + 1, right_end - 1)), LAMBDA right_str :
    With(IF Byte(m, right_end) = "\"" THEN right_end + 1 ELSE right_end,
         LAMBDA after :
    With(get_cell_string_value(sheet, ref), LAMBDA left_str :
    With(IF left_str # NULL THEN strcmp(left_str, right_str)
         ELSE strcmp("", right_str), LAMBDA cmp_result :
      CASE op = <<"=">> -> Scan(after, Truth(cmp_result = 0), "ERROR_NONE")
        [] op = <<"<", ">">> -> Scan(after, Truth(cmp_result # 0), "ERROR_NONE")
        [] op = <<"<">> -> Scan(after, Truth(cmp_result < 0), "ERROR_NONE")
        [] op = <<"<", "=">> -> Scan(after, Truth(cmp_result <= 0), "ERROR_NONE")
        [] op = <<">">> -> Scan(after, Truth(cmp_result > 0), "ERROR_NONE")
        [] op = <<">", "=">> -> Scan(after, Truth(cmp_result >= 0), "ERROR_NONE")
        [] OTHER -> Scan(after, 0, "ERROR_PARSE"))))))

\* The value of a numeric comparison; *error is what the right side left.
Compared(holds, right) == Scan(right.pos, Truth(holds), right.error)

\* The numeric fallback of evaluate_comparison.
NumericComparison(sheet, m, pos) ==
    With(parse_expression_at(sheet, m, pos), LAMBDA left :
      IF left.error # "ERROR_NONE" THEN left
      ELSE With(skip_whitespace(m, left.pos), LAMBDA p :
        CASE Byte(m, p) = ">" ->
               (IF Byte(m, p + 1) = "="
                THEN With(parse_expression_at(sheet, m, p + 2), LAMBDA right :
                       Compared(left.value >= right.value, right))
                ELSE With(parse_expression_at(sheet, m, p + 1), LAMBDA right :
                       Compared(left.value > right.value, right)))
          [] Byte(m, p) = "<" ->
               (IF Byte(m, p + 1) = "="
                THEN With(parse_expression_at(sheet, m, p + 2), LAMBDA right :
                       Compared(left.value <= right.value, right))
                ELSE IF Byte(m, p + 1) = ">"
                THEN With(parse_expression_at(sheet, m, p + 2), LAMBDA right :
                       Compared(left.value # right.value, right))
                ELSE With(parse_expression_at(sheet, m, p + 1), LAMBDA right :
                       Compared(left.value < right.value, right)))
          [] Byte(m, p) = "=" ->
               (With(parse_expression_at(sheet, m, p + 1), LAMBDA right :
                  Compared(left.value = right.value, right)))
          [] OTHER -> Scan(p, left.value, "ERROR_NONE")))

\* evaluate_comparison from the first character behind the '='.
evaluate_comparison_at(sheet, m, pos) ==
    With(RunEnd(m, pos, 31, IsAlnum), LAMBDA ref_end :
    With(parse_cell_reference(SubSeq(m, pos, ref_end - 1)), LAMBDA ref :
    With(skip_whitespace(m, ref_end), LAMBDA op_start :
    With(ComparisonOp(m, op_start), LAMBDA op :
    With(skip_whitespace(m, op_start + Len(op)), LAMBDA right :
      IF ref.ok = 1 /\ Len(op) > 0 /\ Byte(m, right) = "\""
      THEN StringComparison(sheet, m, ref, op, right)
      ELSE NumericComparison(sheet, m, pos))))))

\* evaluate_formula over the memory m: skips the leading '='.
evaluate_formula_at(sheet, m) ==
    evaluate_comparison_at(sheet, m, IF Byte(m, 1) = "=" THEN 2 ELSE 1)

(***************************************************************************)
(* Clipboards and selection (sheet.h)                                      *)
(***************************************************************************)
\* The clone that sheet_set_clipboard_cell stores in clipboard_cell.
sheet_set_clipboard_cell(cell) ==
    IF ~cell.exists THEN NullCell
    ELSE With(cell_new(cell.row, cell.col), LAMBDA fresh :
         With(CASE cell.type = "CELL_NUMBER" ->
                          cell_set_number(fresh, cell.number)
                     [] cell.type = "CELL_STRING" ->
                          cell_set_string(fresh, cell.string)
                     [] cell.type = "CELL_FORMULA" ->
                          [cell_set_formula(fresh, cell.expression) EXCEPT
                              !.cached_value = cell.cached_value,
                              !.error = cell.error]
                     [] OTHER -> fresh, LAMBDA c1 :
           [c1 EXCEPT !.width = cell.width, !.precision = cell.precision,
                       !.align = cell.align,
                       !.text_color = cell.text_color,
                       !.background_color = cell.background_color,
                       !.row_height = cell.row_height]))

sheet_copy_cell(sheet, src_row, src_col, dest_row, dest_col) ==
    With(sheet_get_cell(sheet, src_row, src_col), LAMBDA src_cell :
      IF ~src_cell.exists
       THEN sheet_clear_cell(sheet, dest_row, dest_col)
       ELSE
         With(CASE src_cell.type = "CELL_NUMBER" ->
                          sheet_set_number(sheet, dest_row, dest_col, src_cell.number)
                     [] src_cell.type = "CELL_STRING" ->
                          sheet_set_string(sheet, dest_row, dest_col, src_cell.string)
                     [] src_cell.type = "CELL_FORMULA" ->
                          sheet_set_formula(sheet, dest_row, dest_col, src_cell.expression)
                     [] OTHER -> sheet_clear_cell(sheet, dest_row, dest_col), LAMBDA s1 :
         With(sheet_get_cell(s1, dest_row, dest_col), LAMBDA dest_cell :
         LET s2 == IF dest_cell.exists
                   THEN [s1 EXCEPT !.cells[<<dest_row, dest_col>>] =
                           [dest_cell EXCEPT
                              !.width = src_cell.width,
                              !.precision = src_cell.precision,
                              !.align = src_cell.align,
                              !.text_color = src_cell.text_color,
                              !.background_color = src_cell.background_color,
                              !.row_height = src_cell.row_height]]
                   ELSE s1 IN
           sheet_recalculate(s2))))

sheet_start_range_selection(sheet, row, col) ==
    [sheet EXCEPT !.selection =
        [start_row |-> row, start_col |-> col, end_row |-> row,
         end_col |-> col, is_active |-> 1]]

sheet_extend_range_selection(sheet, row, col) ==
    IF sheet.selection.is_active # 0
    THEN [sheet EXCEPT !.selection.end_row = row, !.selection.end_col = col]
    ELSE sheet

sheet_clear_range_selection(sheet) ==
    [sheet EXCEPT !.selection.is_active = 0]

\* The canonical corners of the selection.
SelMinRow(sheet) == Min(sheet.selection.start_row, sheet.selection.end_row)
SelMaxRow(sheet) == Max(sheet.selection.start_row, sheet.selection.end_row)
SelMinCol(sheet) == Min(sheet.selection.start_col, sheet.selection.end_col)
SelMaxCol(sheet) == Max(sheet.selection.start_col, sheet.selection.end_col)

\* The clone of one source cell that sheet_copy_range puts on the clipboard.
CopyRangeCell(src_cell) ==
    IF ~src_cell.exists THEN NullCell
    ELSE With(cell_new(src_cell.row, src_cell.col), LAMBDA fresh :
         With(CASE src_cell.type = "CELL_NUMBER" ->
                          cell_set_number(fresh, src_cell.number)
                     [] src_cell.type = "CELL_STRING" ->
                          cell_set_string(fresh, src_cell.string)
                     [] src_cell.type = "CELL_FORMULA" ->
                          [cell_set_formula(fresh, src_cell.expression) EXCEPT
                              !.cached_value = src_cell.cached_value,
                              !.error = src_cell.error]
                     [] OTHER -> fresh, LAMBDA c1 :
           [c1 EXCEPT !.width = src_cell.width,
                       !.precision = src_cell.precision,
                       !.align = src_cell.align,
                       !.format = src_cell.format,
                       !.format_style = src_cell.format_style]))

sheet_copy_range(sheet) ==
    IF sheet.selection.is_active = 0 THEN sheet
    ELSE With(SelMinRow(sheet), LAMBDA min_row :
         With(SelMinCol(sheet), LAMBDA min_col :
         With(SelMaxRow(sheet) - min_row + 1, LAMBDA rows :
         With(SelMaxCol(sheet) - min_col + 1, LAMBDA cols :
           [sheet EXCEPT !.range_clipboard =
               [rows |-> rows, cols |-> cols, is_active |-> 1,
                cells |-> [p \in (0 .. rows - 1) \X (0 .. cols - 1) |->
                             CopyRangeCell(sheet_get_cell(sheet, min_row + p[1],
                                                          min_col + p[2]))]]]))))

\* One iteration of the loops of sheet_paste_range, for clipboard (i, j).
PasteRangeCell(sheet, start_row, start_col, i, j) ==
    LET dest_row == start_row + i
        dest_col == start_col + j
        src_cell == sheet.range_clipboard.cells[<<i, j>>]
    IN IF dest_row >= sheet.rows \/ dest_col >= sheet.cols THEN sheet
       ELSE IF src_cell.exists
       THEN With(sheet_get_or_create_cell(sheet, dest_row, dest_col), LAMBDA s1 :
            With(sheet_get_cell(s1, dest_row, dest_col), LAMBDA dest_cell :
              IF ~dest_cell.exists THEN s1
               ELSE With(CASE src_cell.type = "CELL_NUMBER" ->
                                 cell_set_number(dest_cell, src_cell.number)
                            [] src_cell.type = "CELL_STRING" ->
                                 cell_set_string(dest_cell, src_cell.string)
                            [] src_cell.type = "CELL_FORMULA" ->
                                 cell_set_formula(dest_cell, src_cell.expression)
                            [] OTHER -> cell_clear(dest_cell), LAMBDA c1 :
                      [s1 EXCEPT !.cells[<<dest_row, dest_col>>] =
                          [c1 EXCEPT !.width = src_cell.width,
                                     !.precision = src_cell.precision,
                                     !.align = src_cell.align,
                                     !.format = src_cell.format,
                                     !.format_style = src_cell.format_style]])))
       ELSE sheet_clear_cell(sheet, dest_row, dest_col)

\* A paste that moves the rectangle back into the grid instead of clipping it.
RECURSIVE PasteRangeShifted(_, _, _, _)
PasteRangeShifted(sheet, start_row, start_col, k) ==
    IF k >= sheet.range_clipboard.rows * sheet.range_clipboard.cols THEN sheet
    ELSE PasteRangeShifted(
            PasteRangeCell(sheet,
                           Min(start_row, Max(0, sheet.rows - sheet.range_clipboard.rows)),
                           Min(start_col, Max(0, sheet.cols - sheet.range_clipboard.cols)),
                           k \div sheet.range_clipboard.cols,
                           k % sheet.range_clipboard.cols),
            start_row, start_col, k + 1)

RECURSIVE PasteRangeFrom(_, _, _, _)
PasteRangeFrom(sheet, start_row, start_col, k) ==
    IF k >= sheet.range_clipboard.rows * sheet.range_clipboard.cols THEN sheet
    ELSE PasteRangeFrom(
            PasteRangeCell(sheet, start_row, start_col,
                           k \div sheet.range_clipboard.cols,
                           k % sheet.range_clipboard.cols),
            start_row, start_col, k + 1)

sheet_paste_range(sheet, start_row, start_col) ==
    IF sheet.range_clipboard.is_active = 0 THEN sheet
    ELSE sheet_recalculate(PasteRangeFrom(sheet, start_row, start_col, 0))

(***************************************************************************)
(* Column and row sizes (sheet.h)                                          *)
(***************************************************************************)
Clamp(v, lo, hi) == IF v < lo THEN lo ELSE IF v > hi THEN hi ELSE v

sheet_set_column_width(sheet, col, width) ==
    IF col < 0 \/ col >= sheet.cols \/ width < 1 THEN sheet
    ELSE [sheet EXCEPT !.col_widths[col] = width]

sheet_set_row_height(sheet, row, height) ==
    IF row < 0 \/ row >= sheet.rows \/ height < 1 THEN sheet
    ELSE [sheet EXCEPT !.row_heights[row] = height]

sheet_resize_columns_in_range(sheet, start_col, end_col, delta) ==
    IF start_col < 0 \/ end_col >= sheet.cols \/ start_col > end_col THEN sheet
    ELSE [sheet EXCEPT !.col_widths =
            [c \in DOMAIN sheet.col_widths |->
                IF c >= start_col /\ c <= end_col
                THEN Clamp(sheet.col_widths[c] + delta, MinSize, MaxColWidth)
                ELSE sheet.col_widths[c]]]

sheet_resize_rows_in_range(sheet, start_row, end_row, delta) ==
    IF start_row < 0 \/ end_row >= sheet.rows \/ start_row > end_row THEN sheet
    ELSE [sheet EXCEPT !.row_heights =
            [r \in DOMAIN sheet.row_heights |->
                IF r >= start_row /\ r <= end_row
                THEN Clamp(sheet.row_heights[r] + delta, MinSize, MaxRowHeight)
                ELSE sheet.row_heights[r]]]

(***************************************************************************)
(* Application (main.c).  An AppState record; clipboard_cell is the static *)
(* global of sheet.h, kept beside it.                                      *)
(***************************************************************************)
\* The sample text app_init writes into column A of the first rows.
SampleText(row, col) ==
    CASE row = 0 /\ col = 0 -> "Enhanced WinSpread Features"
      [] row = 2 /\ col = 0 -> "NEW FEATURES:"
      [] row = 3 /\ col = 0 -> "Range Selection: Shift+arrows"
      [] OTHER -> NULL

RECURSIVE SampleFrom(_, _)
SampleFrom(sheet, i) ==
    IF i >= sheet.rows * sheet.cols THEN sheet
    ELSE LET row == i \div sheet.cols
             col == i % sheet.cols
         IN SampleFrom(IF SampleText(row, col) # NULL
                       THEN sheet_set_string(sheet, row, col, SampleText(row, col))
                       ELSE sheet,
                       i + 1)

app_init ==
    [sheet |-> sheet_recalculate(SampleFrom(sheet_new(NumRows, NumCols), 0)),
     clipboard_cell |-> NullCell,
     cursor_row |-> 0, cursor_col |-> 0,
     range_selection_active |-> FALSE,
     range_start_row |-> 0, range_start_col |-> 0,
     undo_buffer |-> undo_buffer_init,
     status_message |-> "Ready",
     running |-> TRUE]

app_start_range_selection(state) ==
    [state EXCEPT
        !.range_selection_active = TRUE,
        !.range_start_row = state.cursor_row,
        !.range_start_col = state.cursor_col,
        !.sheet = sheet_start_range_selection(state.sheet, state.cursor_row,
                                              state.cursor_col),
        !.status_message = "Range selection started"]

app_extend_range_selection(state, row, col) ==
    IF state.range_selection_active
    THEN [state EXCEPT
            !.sheet = sheet_extend_range_selection(state.sheet, row, col),
            !.status_message =
                "Selected: "
                \o cell_reference_to_string(state.range_start_row,
                                            state.range_start_col)
                \o ":" \o cell_reference_to_string(row, col)]
    ELSE state

app_cancel_range_selection(state) ==
    [state EXCEPT
        !.range_selection_active = FALSE,
        !.sheet = sheet_clear_range_selection(state.sheet),
        !.status_message = "Range selection cancelled"]

\* The cursor-movement arm shared by the arrow keys (without Alt).
MoveCursor(state, drow, dcol, shift) ==
    With(IF shift /\ ~state.range_selection_active
              THEN app_start_range_selection(state) ELSE state, LAMBDA s1 :
    LET s2 == [s1 EXCEPT !.cursor_row = state.cursor_row + drow,
                         !.cursor_col = state.cursor_col + dcol] IN
      IF shift THEN app_extend_range_selection(s2, s2.cursor_row, s2.cursor_col)
       ELSE IF s2.range_selection_active THEN app_cancel_range_selection(s2)
       ELSE s2)

\* Alt+Left / Alt+Right: delta is -1 or +1.
ResizeColumnsKey(state, delta) ==
    IF state.sheet.selection.is_active # 0
    THEN [state EXCEPT
            !.sheet = sheet_resize_columns_in_range(state.sheet,
                          SelMinCol(state.sheet), SelMaxCol(state.sheet), delta),
            !.status_message = "Columns resized"]
    ELSE [state EXCEPT
            !.sheet = sheet_resize_columns_in_range(state.sheet,
                          state.cursor_col, state.cursor_col, delta),
            !.status_message = "Column resized"]

\* Alt+Up / Alt+Down: delta is -1 or +1.
ResizeRowsKey(state, delta) ==
    IF state.sheet.selection.is_active # 0
    THEN [state EXCEPT
            !.sheet = sheet_resize_rows_in_range(state.sheet,
                          SelMinRow(state.sheet), SelMaxRow(state.sheet), delta),
            !.status_message = "Rows resized"]
    ELSE [state EXCEPT
            !.sheet = sheet_resize_rows_in_range(state.sheet,
                          state.cursor_row, state.cursor_row, delta),
            !.status_message = "Row resized"]

\* Rows a Page Up or Page Down key moves the cursor.
PageRows == 10

\* KEY_PGDN without the min against the last row.
PageDownUnclamped(state) ==
    With([state EXCEPT !.cursor_row = state.cursor_row + PageRows], LAMBDA s1 :
      IF s1.range_selection_active THEN app_cancel_range_selection(s1) ELSE s1)

\* KEY_PGUP of app_handle_input.
PageUp(state) ==
    With([state EXCEPT !.cursor_row = Max(0, state.cursor_row - PageRows)],
         LAMBDA s1 :
           IF s1.range_selection_active THEN app_cancel_range_selection(s1) ELSE s1)

\* KEY_PGDN of app_handle_input.
PageDown(state) ==
    With([state EXCEPT !.cursor_row =
              Min(state.sheet.rows - 1, state.cursor_row + PageRows)],
         LAMBDA s1 :
           IF s1.range_selection_active THEN app_cancel_range_selection(s1) ELSE s1)

\* The arrow keys, Page Up, Page Down and the character keys l, j and k of
\* app_handle_input. The label of the character key h stands inside the
\* comment that precedes it, so the switch has no arm for h.
ArrowKey(state, key, shift, alt) ==
    CASE key = "KEY_LEFT" ->
           IF alt THEN ResizeColumnsKey(state, -1)
           ELSE IF state.cursor_col > 0 THEN MoveCursor(state, 0, -1, shift)
           ELSE state
      [] key = "KEY_RIGHT" ->
           IF alt THEN ResizeColumnsKey(state, 1)
           ELSE IF state.cursor_col < state.sheet.cols - 1
                THEN MoveCursor(state, 0, 1, shift)
           ELSE state
      [] key = "KEY_UP" ->
           IF alt THEN ResizeRowsKey(state, -1)
           ELSE IF state.cursor_row > 0 THEN MoveCursor(state, -1, 0, shift)
           ELSE state
      [] key = "KEY_DOWN" ->
           IF alt THEN ResizeRowsKey(state, 1)
           ELSE IF state.cursor_row < state.sheet.rows - 1
                THEN MoveCursor(state, 1, 0, shift)
           ELSE state
      [] key = "KEY_PGUP" -> PageUp(state)
      [] key = "KEY_PGDN" -> PageDown(state)
      [] key = "l" ->
           IF state.cursor_col < state.sheet.cols - 1
           THEN MoveCursor(state, 0, 1, shift) ELSE state
      [] key = "j" ->
           IF state.cursor_row < state.sheet.rows - 1
           THEN MoveCursor(state, 1, 0, shift) ELSE state
      [] key = "k" ->
           IF state.cursor_row > 0 THEN MoveCursor(state, -1, 0, shift) ELSE state
      [] OTHER -> state

\* strtod over the input buffer: ok when the whole buffer is a number.
StrToD(text) ==
    IF text = "0.1234" THEN [ok |-> TRUE, value |-> 1234]
    ELSE IF \E n \in 0 .. MAX_UNDO_ACTIONS : ToString(n) = text
    THEN [ok |-> TRUE,
          value |-> Scale * (CHOOSE n \in 0 .. MAX_UNDO_ACTIONS : ToString(n) = text)]
    ELSE [ok |-> FALSE, value |-> 0]

\* input_buffer[0] == '='
StartsWithEquals(text) ==
    text \in {"=A1+1", "=B1+1", "=A2+1", "=1/A1"}

\* app_finish_input in MODE_INSERT_NUMBER / MODE_INSERT_FORMULA / MODE_INSERT_STRING
app_finish_input(state, mode, input_buffer) ==
    LET action_desc == CASE mode = "MODE_INSERT_NUMBER" -> "Enter number"
                         [] mode = "MODE_INSERT_FORMULA" -> "Enter formula"
                         [] mode = "MODE_INSERT_STRING" -> "Enter text"
                         [] OTHER -> "Input" IN
    With(undo_save_cell_state(state, state.cursor_row, state.cursor_col,
                                   action_desc), LAMBDA s1 :
    LET row == state.cursor_row
        col == state.cursor_col IN
      IF mode \in {"MODE_INSERT_NUMBER", "MODE_INSERT_FORMULA"}
       THEN With(IF StartsWithEquals(input_buffer)
                      THEN sheet_set_formula(s1.sheet, row, col, input_buffer)
                      ELSE IF StrToD(input_buffer).ok
                      THEN sheet_set_number(s1.sheet, row, col,
                                            StrToD(input_buffer).value)
                      ELSE sheet_set_string(s1.sheet, row, col, input_buffer), LAMBDA sh :
              [s1 EXCEPT !.sheet = sheet_recalculate(sh)])
       ELSE [s1 EXCEPT !.sheet = sheet_set_string(s1.sheet, row, col, input_buffer)])

FormatMessage(format) ==
    CASE format = "FORMAT_PERCENTAGE" -> "Cell formatted as percentage"
      [] format = "FORMAT_CURRENCY" -> "Cell formatted as currency"
      [] format = "FORMAT_DATE" -> "Cell formatted as date"
      [] format = "FORMAT_TIME" -> "Cell formatted as time"
      [] format = "FORMAT_NUMBER" -> "Cell formatted as number"
      [] OTHER -> "Cell formatting reset to general"

app_set_cell_format(state, format, style) ==
    With(undo_save_cell_state(state, state.cursor_row, state.cursor_col,
                                   "Format cell"), LAMBDA s1 :
    With(sheet_get_or_create_cell(s1.sheet, state.cursor_row, state.cursor_col), LAMBDA sh :
    With(sheet_get_cell(sh, state.cursor_row, state.cursor_col), LAMBDA cell :
      IF cell.exists
       THEN [s1 EXCEPT
               !.sheet = [sh EXCEPT !.cells[<<state.cursor_row, state.cursor_col>>] =
                             cell_set_format(cell, format, style)],
               !.status_message = FormatMessage(format)]
       ELSE [s1 EXCEPT !.status_message = "Failed to format cell"])))

\* One formatting edit of a cell: cell_set_format, cell_set_text_color or
\* cell_set_background_color.
ApplyEdit(cell, edit) ==
    CASE edit.what = "format" -> cell_set_format(cell, edit.format, edit.style)
      [] edit.what = "text_color" -> cell_set_text_color(cell, edit.color)
      [] edit.what = "background_color" -> cell_set_background_color(cell, edit.color)
      [] OTHER -> cell

\* Applies the edit to every cell of the selection, creating the cells (the
\* loops of the range variants of "range format", "clrtx" and "clrbg").
RECURSIVE ForSelectionFrom(_, _, _, _)
ForSelectionFrom(sheet, order, k, edit) ==
    IF k > Len(order) THEN sheet
    ELSE With(sheet_get_or_create_cell(sheet, order[k][1], order[k][2]), LAMBDA sh :
         With(sheet_get_cell(sh, order[k][1], order[k][2]), LAMBDA cell :
           ForSelectionFrom(
              IF cell.exists
              THEN [sh EXCEPT !.cells[<<order[k][1], order[k][2]>>] =
                        ApplyEdit(cell, edit)]
              ELSE sh,
              order, k + 1, edit)))

ForSelection(sheet, edit) ==
    ForSelectionFrom(sheet,
                     RowMajor(SelMinRow(sheet), SelMinCol(sheet),
                              SelMaxRow(sheet), SelMaxCol(sheet)),
                     1, edit)

\* "range format <type>"
RangeFormatCommand(state, format_type) ==
    IF state.sheet.selection.is_active = 0
    THEN [state EXCEPT !.status_message = "No range selected"]
    ELSE LET format == CASE format_type = "percentage" -> "FORMAT_PERCENTAGE"
                         [] format_type = "currency" -> "FORMAT_CURRENCY"
                         [] format_type = "date" -> "FORMAT_DATE"
                         [] format_type = "time" -> "FORMAT_TIME"
                         [] OTHER -> "FORMAT_GENERAL"
             style == IF format_type = "time" THEN 7 ELSE 0
         IN [state EXCEPT
               !.sheet = ForSelection(state.sheet,
                            [what |-> "format", format |-> format, style |-> style]),
               !.status_message = "Range formatted as " \o format_type]

parse_color(color_str) ==
    CASE color_str = "black" -> 0
      [] color_str = "blue" -> 1
      [] color_str = "green" -> 2
      [] color_str = "cyan" -> 3
      [] color_str = "red" -> 4
      [] color_str = "magenta" -> 5
      [] color_str = "yellow" -> 6
      [] color_str = "white" -> 7
      [] OTHER -> -1

\* "clrtx <color>" (background = FALSE) and "clrbg <color>" (background = TRUE)
ColorCommand(state, color_str, background) ==
    With(parse_color(color_str), LAMBDA color :
    LET edit == [what |-> IF background THEN "background_color" ELSE "text_color",
                 color |-> color]
        what == IF background THEN "background color" ELSE "text color" IN
      IF color >= 0
       THEN IF state.sheet.selection.is_active # 0
            THEN [state EXCEPT
                    !.sheet = ForSelection(state.sheet, edit),
                    !.status_message = "Range " \o what \o " set to " \o color_str]
            ELSE With(sheet_get_or_create_cell(state.sheet, state.cursor_row,
                                                    state.cursor_col), LAMBDA sh :
                 With(sheet_get_cell(sh, state.cursor_row, state.cursor_col), LAMBDA cell :
                   IF cell.exists
                    THEN [state EXCEPT
                            !.sheet = [sh EXCEPT
                                !.cells[<<state.cursor_row, state.cursor_col>>] =
                                    ApplyEdit(cell, edit)],
                            !.status_message =
                                "Cell " \o what \o " set to " \o color_str]
                    ELSE state))
       ELSE [state EXCEPT !.status_message = "Invalid color: " \o color_str])

\* The 'x' key.
ClearKey(state) ==
    With(undo_save_cell_state(state, state.cursor_row, state.cursor_col,
                                   "Clear cell"), LAMBDA s1 :
      [s1 EXCEPT
          !.sheet = sheet_recalculate(
                       sheet_clear_cell(s1.sheet, state.cursor_row, state.cursor_col)),
          !.status_message = "Cell cleared"])

app_copy_cell(state) ==
    [state EXCEPT
        !.clipboard_cell = sheet_set_clipboard_cell(
            sheet_get_cell(state.sheet, state.cursor_row, state.cursor_col)),
        !.status_message = "Cell copied"]

app_paste_cell(state) ==
    LET clipboard == state.clipboard_cell
    IN IF clipboard.exists
       THEN With(undo_save_cell_state(state, state.cursor_row,
                                           state.cursor_col, "Paste cell"), LAMBDA s1 :
              [s1 EXCEPT
                  !.sheet = sheet_copy_cell(s1.sheet, clipboard.row, clipboard.col,
                                            state.cursor_row, state.cursor_col),
                  !.status_message = "Cell pasted"])
       ELSE [state EXCEPT !.status_message = "Nothing to paste"]

app_copy_range(state) ==
    IF state.sheet.selection.is_active # 0
    THEN [state EXCEPT !.sheet = sheet_copy_range(state.sheet),
                       !.status_message = "Range copied"]
    ELSE app_copy_cell(state)

app_paste_range(state) ==
    IF state.sheet.range_clipboard.is_active # 0
    THEN LET end_row == state.cursor_row + state.sheet.range_clipboard.rows - 1
             end_col == state.cursor_col + state.sheet.range_clipboard.cols - 1 IN
         With(undo_save_range_state(state, state.cursor_row, state.cursor_col,
                                         end_row, end_col, "Paste range"), LAMBDA s1 :
           [s1 EXCEPT
               !.sheet = sheet_paste_range(s1.sheet, state.cursor_row,
                                           state.cursor_col),
               !.status_message = "Range pasted"])
    ELSE app_paste_cell(state)

\* text is what get_system_clipboard_text returned (never NULL here).
app_paste_from_system_clipboard(state, text) ==
    LET row == state.cursor_row
        col == state.cursor_col
    IN IF text = ""
       THEN [state EXCEPT
               !.sheet = sheet_clear_cell(state.sheet, row, col),
               !.status_message = "Cell cleared from system clipboard"]
       ELSE IF StartsWithEquals(text)
       THEN [state EXCEPT
               !.sheet = sheet_recalculate(sheet_set_formula(state.sheet, row, col, text)),
               !.status_message = "Formula pasted from system clipboard"]
       ELSE IF StrToD(text).ok
       THEN [state EXCEPT
               !.sheet = sheet_set_number(state.sheet, row, col, StrToD(text).value),
               !.status_message = "Number pasted from system clipboard"]
       ELSE [state EXCEPT
               !.sheet = sheet_set_string(state.sheet, row, col, text),
               !.status_message = "Text pasted from system clipboard"]

(***************************************************************************)
(* One key press or command (app_handle_input in MODE_NORMAL, with the     *)
(* typing of an input line folded into its Enter key).                     *)
(***************************************************************************)
KeyOp(name) == [name |-> name]
ArrowOp(key, shift, alt) == [name |-> "arrow", key |-> key, shift |-> shift, alt |-> alt]
InputOp(mode, text) == [name |-> "input", mode |-> mode, text |-> text]
FormatOp(format, style) == [name |-> "format", format |-> format, style |-> style]
RangeFormatOp(format_type) == [name |-> "range_format", format_type |-> format_type]
ColorOp(color_str, background) ==
    [name |-> "color", color_str |-> color_str, background |-> background]
SysPasteOp(text) == [name |-> "sys_paste", text |-> text]

Handle(state, op) ==
    CASE op.name = "arrow" -> ArrowKey(state, op.key, op.shift, op.alt)
      [] op.name = "input" -> app_finish_input(state, op.mode, op.text)
      [] op.name = "format" -> app_set_cell_format(state, op.format, op.style)
      [] op.name = "range_format" -> RangeFormatCommand(state, op.format_type)
      [] op.name = "color" -> ColorCommand(state, op.color_str, op.background)
      [] op.name = "clear" -> ClearKey(state)
      [] op.name = "copy" -> app_copy_range(state)
      [] op.name = "paste" -> app_paste_range(state)
      [] op.name = "sys_paste" -> app_paste_from_system_clipboard(state, op.text)
      [] op.name = "undo" -> undo_perform(state)
      [] op.name = "redo" -> redo_perform(state)
      [] OTHER -> state

(***************************************************************************)
(* History of the run, kept for the statement of the properties only: it   *)
(* never influences the program state.                                     *)
(***************************************************************************)
\* Which arm of the handler the operation takes in this state.
OpKind(state, op) ==
    CASE op.name = "arrow" -> IF op.alt THEN "resize" ELSE "move"
      [] op.name = "copy" ->
           IF state.sheet.selection.is_active # 0 THEN "copy_range" ELSE "copy_cell"
      [] op.name = "paste" ->
           IF state.sheet.range_clipboard.is_active # 0 THEN "paste_range"
           ELSE IF state.clipboard_cell.exists THEN "paste_cell"
           ELSE "paste_nothing"
      [] OTHER -> op.name

\* The operations for which the code records an undo entry.
RecordingKinds == {"input", "clear", "format", "paste_cell", "paste_range"}

\* The grid positions an operation of this kind writes.
Affected(state, kind) ==
    IF kind = "paste_range"
    THEN {p \in Pos :
            /\ p[1] >= state.cursor_row
            /\ p[1] < state.cursor_row + state.sheet.range_clipboard.rows
            /\ p[2] >= state.cursor_col
            /\ p[2] < state.cursor_col + state.sheet.range_clipboard.cols}
    ELSE {<<state.cursor_row, state.cursor_col>>}

NoHist ==
    [last_op |-> "init", prev_op |-> "init",
     phase |-> "other", pre_sheet |-> <<>>, post_sheet |-> <<>>, aff |-> {},
     log |-> <<>>, undo_run |-> 0, cut |-> 0,
     copy_src |-> NullCell, copy_pos |-> <<0, 0>>, copy_valid |-> FALSE,
     rcopy_sheet |-> <<>>, rcopy_valid |-> FALSE, last_copy |-> "none",
     arg |-> 0, formula |-> "", result |-> Ok(0),
     label |-> <<>>, parsed |-> NoReference,
     text |-> <<>>, behind |-> <<>>, scanned |-> Scan(0, 0, "ERROR_NONE"),
     mem |-> mem_init]

NextHist(state, hist, op, new) ==
    With(OpKind(state, op), LAMBDA kind :
    With(kind \in RecordingKinds, LAMBDA recording :
    LET undone == state.undo_buffer.count - state.undo_buffer.current_index IN
      [last_op |-> kind,
        prev_op |-> hist.last_op,
        phase |-> IF recording THEN "mut"
                  ELSE IF kind = "undo" /\ hist.phase = "mut" THEN "mut_undo"
                  ELSE IF kind = "redo" /\ hist.phase = "mut_undo" THEN "mut_undo_redo"
                  ELSE "other",
        pre_sheet |-> IF recording THEN state.sheet ELSE hist.pre_sheet,
        post_sheet |-> IF recording THEN new.sheet ELSE hist.post_sheet,
        aff |-> IF recording THEN Affected(state, kind) ELSE hist.aff,
        log |-> IF recording
                THEN Append(SubSeq(hist.log, 1, Len(hist.log) - undone),
                            [kind |-> kind, row |-> state.cursor_row,
                             col |-> state.cursor_col,
                             before |-> sheet_get_cell(state.sheet, state.cursor_row,
                                                       state.cursor_col)])
                ELSE hist.log,
        cut |-> IF recording THEN undone ELSE hist.cut,
        undo_run |-> IF kind = "undo" /\ state.undo_buffer.current_index > 0
                     THEN hist.undo_run + 1 ELSE 0,
        copy_src |-> IF kind = "copy_cell"
                     THEN sheet_get_cell(state.sheet, state.cursor_row, state.cursor_col)
                     ELSE hist.copy_src,
        copy_pos |-> IF kind = "copy_cell"
                     THEN <<state.cursor_row, state.cursor_col>>
                     ELSE hist.copy_pos,
        copy_valid |-> IF kind = "copy_cell"
                       THEN sheet_get_cell(state.sheet, state.cursor_row,
                                           state.cursor_col).exists
                       ELSE hist.copy_valid,
        rcopy_sheet |-> IF kind = "copy_range" THEN state.sheet ELSE hist.rcopy_sheet,
        rcopy_valid |-> IF kind = "copy_range" THEN TRUE ELSE hist.rcopy_valid,
        last_copy |-> IF kind = "copy_range" THEN "range"
                      ELSE IF kind = "copy_cell" THEN "cell"
                      ELSE hist.last_copy,
        arg |-> hist.arg, formula |-> hist.formula, result |-> hist.result,
        label |-> hist.label, parsed |-> hist.parsed,
        text |-> hist.text, behind |-> hist.behind, scanned |-> hist.scanned,
        mem |-> hist.mem]))

\* One operation applied to the pair (program state, history).
StepWorld(w, op) ==
    With(Handle(w.state, op), LAMBDA new :
      [state |-> new, hist |-> NextHist(w.state, w.hist, op, new)])

(***************************************************************************)
(* Opening sessions: the key presses a run starts with                     *)
(***************************************************************************)
FormulaMode == "MODE_INSERT_FORMULA"
StringMode == "MODE_INSERT_STRING"

SessionFresh == <<>>

\* A1 = 0.1234 as percentage in red, B1 = A1 + 1; the cursor ends on B1.
SessionSheet ==
    <<InputOp(FormulaMode, "0.1234"),
      FormatOp("FORMAT_PERCENTAGE", 0),
      ColorOp("red", FALSE),
      ArrowOp("KEY_RIGHT", FALSE, FALSE),
      InputOp(FormulaMode, "=A1+1")>>

\* The same sheet with the cursor back on A1.
SessionSheetAtA1 == SessionSheet \o <<ArrowOp("KEY_LEFT", FALSE, FALSE)>>

\* The same sheet, B1:A1 copied as a range, the cursor moved down to A2.
SessionRangeCopied ==
    SessionSheet \o <<ArrowOp("KEY_LEFT", TRUE, FALSE), KeyOp("copy"),
                      ArrowOp("KEY_DOWN", FALSE, FALSE)>>

\* The numbers 1 .. MAX_UNDO_ACTIONS typed into A1 one after the other: the
\* undo log is full.
SessionFullLog ==
    [k \in 1 .. MAX_UNDO_ACTIONS |-> InputOp(FormulaMode, ToString(k))]

\* The same sheet with B1:A1 selected (the cursor is on A1).
SessionSelected == SessionSheet \o <<ArrowOp("KEY_LEFT", TRUE, FALSE)>>

\* The copied range pasted at A2.
SessionRangePasted == SessionRangeCopied \o <<KeyOp("paste")>>

\* The same sheet with A1 copied to the single-cell clipboard.
SessionCellCopied == SessionSheetAtA1 \o <<KeyOp("copy")>>

\* A1 copied, then overwritten with 5; the cursor moved down to A2.
SessionCopiedThenEdited ==
    SessionCellCopied \o <<InputOp(FormulaMode, "5"),
                           ArrowOp("KEY_DOWN", FALSE, FALSE)>>

\* The same sheet with its last two records undone.
SessionUndone == SessionSheet \o <<KeyOp("undo"), KeyOp("undo")>>

\* On the fresh sheet, into the empty B1: 5, then the text "hello", then a
\* clear; three undos and three redos.
SessionTyped ==
    <<ArrowOp("KEY_RIGHT", FALSE, FALSE),
      InputOp(FormulaMode, "5"), InputOp(StringMode, "hello"), KeyOp("clear"),
      KeyOp("undo"), KeyOp("undo"), KeyOp("undo"),
      KeyOp("redo"), KeyOp("redo"), KeyOp("redo")>>

Sessions ==
    {SessionFresh, SessionSheet, SessionSheetAtA1, SessionSelected,
     SessionRangeCopied, SessionRangePasted, SessionCellCopied,
     SessionCopiedThenEdited, SessionUndone, SessionFullLog, SessionTyped}

(***************************************************************************)
(* State                                                                   *)
(***************************************************************************)
VARIABLES state, hist, nops, script

vars == <<state, hist, nops, script>>

World == [state |-> state, hist |-> hist]

\* The program starts in app_init and first goes through an opening session.
InitFrom(sessions) ==
    /\ state = app_init
    /\ hist = NoHist
    /\ nops = 0
    /\ script \in sessions

Init == InitFrom(Sessions)

\* The operations the user can choose from: the next one of the opening
\* session while it lasts (mine: it is one of this action's), then any of ops.
Pick(ops, mine) ==
    IF script = <<>> THEN ops
    ELSE IF mine THEN {Head(script)} ELSE {}

\* The user performs op; after the opening session, cost is what it takes
\* from the budget of operations.
Do(op, cost) ==
    /\ IF script = <<>>
       THEN /\ nops + cost <= MaxOps
            /\ nops' = nops + cost
            /\ script' = script
       ELSE /\ nops' = nops
            /\ script' = Tail(script)
    /\ \E w \in {StepWorld(World, op)} :
          /\ state' = w.state
          /\ hist' = w.hist

(***************************************************************************)
(* Inputs                                                                  *)
(***************************************************************************)
ArrowKeys == {"KEY_LEFT", "KEY_RIGHT", "KEY_UP", "KEY_DOWN"}
PageAndLetterKeys == {"KEY_PGUP", "KEY_PGDN", "h", "j", "k", "l"}
InputTexts == {"5", "hello", "=A1+1"}
StringTexts == {"hello"}
CommandFormats == {"FORMAT_PERCENTAGE"}
RangeFormatTypes == {"percentage"}
ColorNames == {"red"}
ClipboardTexts == {"", "=A1+1"}

(***************************************************************************)
(* Actions                                                                 *)
(***************************************************************************)
\* Arrow keys, with or without Shift (move, select).
MoveKey ==
    \E op \in Pick({ArrowOp(key, shift, FALSE) : key \in ArrowKeys, shift \in BOOLEAN},
                   Head(script).name = "arrow" /\ ~Head(script).alt
                      /\ Head(script).key \in ArrowKeys) :
        Do(op, 1)

\* Page Up, Page Down, h, j, k, l, with or without Shift.
PageOrLetterKey ==
    \E op \in Pick({ArrowOp(key, shift, FALSE) :
                        key \in PageAndLetterKeys, shift \in BOOLEAN},
                   Head(script).name = "arrow" /\ ~Head(script).alt
                      /\ Head(script).key \in PageAndLetterKeys) :
        Do(op, 1)

\* Alt + arrow keys (resize).
ResizeKey ==
    \E op \in Pick({ArrowOp(key, FALSE, TRUE) : key \in ArrowKeys},
                   Head(script).name = "arrow" /\ Head(script).alt) :
        Do(op, 1)

\* '=' ... Enter
EnterFormulaMode ==
    \E op \in Pick({InputOp(FormulaMode, text) : text \in InputTexts},
                   Head(script).name = "input" /\ Head(script).mode = FormulaMode) :
        Do(op, 1)

\* '"' ... Enter
EnterStringMode ==
    \E op \in Pick({InputOp(StringMode, text) : text \in StringTexts},
                   Head(script).name = "input" /\ Head(script).mode = StringMode) :
        Do(op, 1)

\* ":format <type>" Enter
FormatCommand ==
    \E op \in Pick({FormatOp(format, 0) : format \in CommandFormats},
                   Head(script).name = "format") :
        Do(op, 1)

\* ":range format <type>" Enter
RangeFormat ==
    \E op \in Pick({RangeFormatOp(t) : t \in RangeFormatTypes},
                   Head(script).name = "range_format") :
        Do(op, 1)

\* ":clrtx <color>" and ":clrbg <color>" Enter
ColorCmd ==
    \E op \in Pick({ColorOp(c, background) : c \in ColorNames, background \in BOOLEAN},
                   Head(script).name = "color") :
        Do(op, 1)

\* 'x'
ClearCell ==
    \E op \in Pick({KeyOp("clear")}, Head(script).name = "clear") : Do(op, 1)

\* Ctrl+C
CopyKey ==
    \E op \in Pick({KeyOp("copy")}, Head(script).name = "copy") : Do(op, 1)

\* Ctrl+V
PasteKey ==
    \E op \in Pick({KeyOp("paste")}, Head(script).name = "paste") : Do(op, 1)

\* Ctrl+Shift+V
SystemPaste ==
    \E op \in Pick({SysPasteOp(text) : text \in ClipboardTexts},
                   Head(script).name = "sys_paste") :
        Do(op, 1)

\* Ctrl+Z
UndoKey ==
    \E op \in Pick({KeyOp("undo")}, Head(script).name = "undo") : Do(op, 1)

\* Ctrl+Shift+Z
RedoKey ==
    \E op \in Pick({KeyOp("redo")}, Head(script).name = "redo") : Do(op, 1)

Next ==
    \/ MoveKey
    \/ PageOrLetterKey
    \/ ResizeKey
    \/ EnterFormulaMode
    \/ EnterStringMode
    \/ FormatCommand
    \/ RangeFormat
    \/ ColorCmd
    \/ ClearCell
    \/ CopyKey
    \/ PasteKey
    \/ SystemPaste
    \/ UndoKey
    \/ RedoKey

Spec == Init /\ [][Next]_vars

(***************************************************************************)
(* The full-log scenario: the user fills the log with MAX_UNDO_ACTIONS      *)
(* records, makes up to MaxOps further key presses at the end of the log   *)
(* and then walks the log back with undo, which costs nothing here.        *)
(***************************************************************************)
InitEvict == InitFrom({SessionFullLog})

AtEndOfLog == state.undo_buffer.current_index = state.undo_buffer.count

EvictEnter ==
    /\ AtEndOfLog
    /\ \E op \in Pick({InputOp(FormulaMode, text) : text \in InputTexts},
                      Head(script).name = "input") :
          Do(op, 1)

EvictClear == script = <<>> /\ AtEndOfLog /\ Do(KeyOp("clear"), 1)

EvictMove ==
    /\ script = <<>>
    /\ AtEndOfLog
    /\ \E key \in {"KEY_RIGHT", "KEY_LEFT"} : Do(ArrowOp(key, FALSE, FALSE), 1)

EvictUndo ==
    /\ script = <<>>
    /\ state.undo_buffer.current_index > 0
    /\ Do(KeyOp("undo"), 0)

NextEvict ==
    \/ EvictEnter
    \/ EvictClear
    \/ EvictMove
    \/ EvictUndo

SpecEvict == InitEvict /\ [][NextEvict]_vars

(***************************************************************************)
(* Scenario: the engine interface of sheet.h called directly, on the sheet *)
(* of a fresh application or of one that has gone through SessionSheet.    *)
(***************************************************************************)
ApiDepth == 2

RECURSIVE AfterSession(_, _)
AfterSession(start, ops) ==
    IF ops = <<>> THEN start
    ELSE AfterSession(Handle(start, Head(ops)), Tail(ops))

ApiStarts == {app_init, AfterSession(app_init, SessionSheet)}

\* The grid and one position beyond each of its four edges.
ApiPos ==
    Pos \cup {<<-1, 0>>, <<NumRows, 0>>, <<0, -1>>, <<0, NumCols>>}

ApiNumbers == {5 * Scale}
ApiStrings == {"hello"}
ApiFormulas == {"=A1+1"}

InitApi ==
    /\ state \in ApiStarts
    /\ hist = NoHist
    /\ nops = 0
    /\ script = <<>>

\* One call: name and arguments are kept in the history, sheet is its result.
ApiCall(name, p, arg, sheet) ==
    /\ nops < ApiDepth
    /\ nops' = nops + 1
    /\ script' = script
    /\ state' = [state EXCEPT !.sheet = sheet]
    /\ hist' = [hist EXCEPT !.last_op = name, !.prev_op = hist.last_op,
                            !.phase = "other", !.pre_sheet = state.sheet,
                            !.aff = {p}, !.arg = arg]

ApiSetNumber ==
    \E p \in ApiPos, v \in ApiNumbers :
        ApiCall("sheet_set_number", p, v, sheet_set_number(state.sheet, p[1], p[2], v))

ApiSetString ==
    \E p \in ApiPos, str \in ApiStrings :
        ApiCall("sheet_set_string", p, 0, sheet_set_string(state.sheet, p[1], p[2], str))

ApiSetFormula ==
    \E p \in ApiPos, f \in ApiFormulas :
        ApiCall("sheet_set_formula", p, 0, sheet_set_formula(state.sheet, p[1], p[2], f))

ApiClearCell ==
    \E p \in ApiPos :
        ApiCall("sheet_clear_cell", p, 0, sheet_clear_cell(state.sheet, p[1], p[2]))

ApiGetOrCreate ==
    \E p \in ApiPos :
        ApiCall("sheet_get_or_create_cell", p, 0,
                sheet_get_or_create_cell(state.sheet, p[1], p[2]))

ApiRecalculate ==
    ApiCall("sheet_recalculate", <<0, 0>>, 0, sheet_recalculate(state.sheet))

\* Index ranges inside the grid of n lines, reaching beyond it, and reversed.
ApiRanges(n) ==
    {<<0, 0>>, <<0, n - 1>>, <<-1, 0>>, <<0, n>>, <<n, n>>, <<n - 1, 0>>}

ApiDeltas == {-MaxColWidth, -1, 1, MaxColWidth}

ApiResizeColumns ==
    \E r \in ApiRanges(NumCols), delta \in ApiDeltas :
        ApiCall("sheet_resize_columns_in_range", r, delta,
                sheet_resize_columns_in_range(state.sheet, r[1], r[2], delta))

ApiResizeRows ==
    \E r \in ApiRanges(NumRows), delta \in ApiDeltas :
        ApiCall("sheet_resize_rows_in_range", r, delta,
                sheet_resize_rows_in_range(state.sheet, r[1], r[2], delta))

NextApi ==
    \/ ApiSetNumber
    \/ ApiSetString
    \/ ApiSetFormula
    \/ ApiClearCell
    \/ ApiGetOrCreate
    \/ ApiRecalculate
    \/ ApiResizeColumns
    \/ ApiResizeRows

SpecApi == InitApi /\ [][NextApi]_vars

(***************************************************************************)
(* Scenario: the sizing interface of sheet.h called directly.              *)
(***************************************************************************)
\* Line indexes inside the grid of n lines and just beyond it.
ApiIndexes(n) == {-1, 0, n - 1, n}

ApiColumnSizes == {0, MinSize, MaxColWidth, MaxColWidth + 1}
ApiRowSizes == {0, MinSize, MaxRowHeight, MaxRowHeight + 1}

ApiSetColumnWidth ==
    \E col \in ApiIndexes(NumCols), width \in ApiColumnSizes :
        ApiCall("sheet_set_column_width", <<col, col>>, width,
                sheet_set_column_width(state.sheet, col, width))

ApiSetRowHeight ==
    \E row \in ApiIndexes(NumRows), height \in ApiRowSizes :
        ApiCall("sheet_set_row_height", <<row, row>>, height,
                sheet_set_row_height(state.sheet, row, height))

InitSize ==
    /\ state = app_init
    /\ hist = NoHist
    /\ nops = 0
    /\ script = <<>>

NextSize ==
    \/ ApiResizeColumns
    \/ ApiResizeRows
    \/ ApiSetColumnWidth
    \/ ApiSetRowHeight

SpecSize == InitSize /\ [][NextSize]_vars

(***************************************************************************)
(* Range functions: formulas evaluated over a grid wide enough to hold a   *)
(* range of more than MAX_RANGE_VALUES cells.                              *)
(***************************************************************************)
WideRows == 32
WideCols == 32

FuncPos == {<<0, 0>>, <<0, 1>>, <<1, 0>>, <<1, 1>>, <<31, 31>>}
FuncNumbers == {1 * Scale, 2 * Scale}
FuncFormulas ==
    {"=SUM(A1:AF32)", "=SUM(A1:B2)", "=MEDIAN(A1:B2)", "=MODE(A1:B2)"}

InitFunc ==
    /\ state = [app_init EXCEPT !.sheet = sheet_new(WideRows, WideCols)]
    /\ hist = NoHist
    /\ nops = 0
    /\ script = <<>>

FuncSetNumber ==
    \E p \in FuncPos, v \in FuncNumbers :
        ApiCall("sheet_set_number", p, v, sheet_set_number(state.sheet, p[1], p[2], v))

FuncSetString ==
    \E p \in FuncPos, str \in ApiStrings :
        ApiCall("sheet_set_string", p, 0, sheet_set_string(state.sheet, p[1], p[2], str))

FuncEvaluate ==
    \E f \in FuncFormulas :
        /\ hist' = [hist EXCEPT !.last_op = "evaluate_formula",
                                !.prev_op = hist.last_op,
                                !.phase = "other", !.pre_sheet = state.sheet,
                                !.aff = {}, !.formula = f,
                                !.result = evaluate_formula(state.sheet, f)]
        /\ UNCHANGED <<state, nops, script>>

NextFunc ==
    \/ FuncSetNumber
    \/ FuncSetString
    \/ FuncEvaluate

SpecFunc == InitFunc /\ [][NextFunc]_vars


(***************************************************************************)
(* A conditional formula on an empty grid: A1 a number, B1 a formula.      *)
(***************************************************************************)
IfDepth == 5

IfFormula == "=IF(A1>5,\"High\",\"Low\")"
IfNumbers == {10 * Scale, 3 * Scale}
IfFormulas == {IfFormula, "=A1+1"}

InitIf ==
    /\ state = [app_init EXCEPT !.sheet = sheet_new(NumRows, NumCols)]
    /\ hist = NoHist
    /\ nops = 0
    /\ script = <<>>

IfCall(name, p, arg, sheet) ==
    /\ nops < IfDepth
    /\ nops' = nops + 1
    /\ script' = script
    /\ state' = [state EXCEPT !.sheet = sheet]
    /\ hist' = [hist EXCEPT !.last_op = name, !.prev_op = hist.last_op,
                            !.phase = "other", !.pre_sheet = state.sheet,
                            !.aff = {p}, !.arg = arg]

IfSetA1 ==
    \E v \in IfNumbers :
        IfCall("sheet_set_number", <<0, 0>>, v, sheet_set_number(state.sheet, 0, 0, v))

IfSetB1 ==
    \E f \in IfFormulas :
        IfCall("sheet_set_formula", <<0, 1>>, 0, sheet_set_formula(state.sheet, 0, 1, f))

IfRecalculate ==
    IfCall("sheet_recalculate", <<0, 0>>, 0, sheet_recalculate(state.sheet))

NextIf ==
    \/ IfSetA1
    \/ IfSetB1
    \/ IfRecalculate

SpecIf == InitIf /\ [][NextIf]_vars


(***************************************************************************)
(* Lookup: a table in A1:B2 filled through the engine, VLOOKUP formulas    *)
(* evaluated over it.                                                      *)
(***************************************************************************)
LookDepth == 4

LookPos == {<<0, 0>>, <<0, 1>>, <<1, 0>>, <<1, 1>>}
LookNumbers == {1 * Scale, 2 * Scale}
LookStrings == {"Apple"}
LookFormulas ==
    {"=VLOOKUP(\"Apple\",A1:B2,2,0)", "=VLOOKUP(\"Grape\",A1:B2,2,0)",
     "=VLOOKUP(2,A1:B2,2,1)", "=VLOOKUP(2,A1:B2,2,0)", "=VLOOKUP(2,A1:B2,2)",
     "=VLOOKUP(1,A1:B2,2,0)", "=VLOOKUP(2,A1:B2,3,0)", "=VLOOKUP(2,A1:B2,0,1)"}

InitLookup ==
    /\ state = [app_init EXCEPT !.sheet = sheet_new(NumRows, NumCols)]
    /\ hist = NoHist
    /\ nops = 0
    /\ script = <<>>

LookCall(name, p, arg, sheet) ==
    /\ nops < LookDepth
    /\ nops' = nops + 1
    /\ script' = script
    /\ state' = [state EXCEPT !.sheet = sheet]
    /\ hist' = [NoHist EXCEPT !.last_op = name, !.aff = {p}, !.arg = arg]

LookSetNumber ==
    \E p \in LookPos, v \in LookNumbers :
        LookCall("sheet_set_number", p, v, sheet_set_number(state.sheet, p[1], p[2], v))

LookSetString ==
    \E p \in LookPos, str \in LookStrings :
        LookCall("sheet_set_string", p, 0, sheet_set_string(state.sheet, p[1], p[2], str))

LookEvaluate ==
    \E f \in LookFormulas :
        /\ hist' = [NoHist EXCEPT !.last_op = "evaluate_formula", !.formula = f,
                                  !.result = evaluate_formula(state.sheet, f)]
        /\ UNCHANGED <<state, nops, script>>

NextLookup ==
    \/ LookSetNumber
    \/ LookSetString
    \/ LookEvaluate

SpecLookup == InitLookup /\ [][NextLookup]_vars


(***************************************************************************)
(* Labels: every position of the program's grid rendered and parsed back.  *)
(***************************************************************************)
GridRows == 1000
GridCols == 100

InitLabel ==
    /\ state = app_init
    /\ hist = NoHist
    /\ nops = 0
    /\ script = <<>>

LabelRender ==
    /\ hist.last_op = "init"
    /\ UNCHANGED <<state, nops, script>>
    /\ \E row \in 0 .. GridRows - 1, col \in 0 .. GridCols - 1 :
          hist' = [NoHist EXCEPT !.last_op = "cell_reference_to_string",
                                 !.aff = {<<row, col>>},
                                 !.label = LabelChars(row, col)]

LabelParse ==
    /\ hist.last_op = "cell_reference_to_string"
    /\ hist' = [hist EXCEPT !.last_op = "parse_cell_reference",
                            !.parsed = parse_cell_reference(hist.label)]
    /\ UNCHANGED <<state, nops, script>>

NextLabel ==
    \/ LabelRender
    \/ LabelParse

SpecLabel == InitLabel /\ [][NextLabel]_vars


(***************************************************************************)
(* Recalculation: numbers and formulas that reference each other written   *)
(* into A1, B1 and A2 of an empty grid, formats set, the sheet             *)
(* recalculated.                                                           *)
(***************************************************************************)
RecalcDepth == 4

RecalcPos == {<<0, 0>>, <<0, 1>>, <<1, 0>>}
RecalcNumbers == {5 * Scale}
RecalcFormulas == {"=A1+1", "=B1+1", "=1/A1"}

InitRecalc ==
    /\ state = [app_init EXCEPT !.sheet = sheet_new(NumRows, NumCols)]
    /\ hist = NoHist
    /\ nops = 0
    /\ script = <<>>

RecalcCall(name, p, sheet) ==
    /\ nops < RecalcDepth
    /\ nops' = nops + 1
    /\ script' = script
    /\ state' = [state EXCEPT !.sheet = sheet]
    /\ hist' = [NoHist EXCEPT !.last_op = name, !.prev_op = hist.last_op,
                              !.pre_sheet = state.sheet, !.aff = {p}]

RecalcSetNumber ==
    \E p \in RecalcPos, v \in RecalcNumbers :
        RecalcCall("sheet_set_number", p, sheet_set_number(state.sheet, p[1], p[2], v))

RecalcSetFormula ==
    \E p \in RecalcPos, f \in RecalcFormulas :
        RecalcCall("sheet_set_formula", p, sheet_set_formula(state.sheet, p[1], p[2], f))

RecalcSetFormat ==
    \E p \in RecalcPos :
        /\ sheet_get_cell(state.sheet, p[1], p[2]).exists
        /\ RecalcCall("cell_set_format", p,
                      [state.sheet EXCEPT !.cells[p] =
                          cell_set_format(sheet_get_cell(state.sheet, p[1], p[2]),
                                          "FORMAT_PERCENTAGE", 0)])

RecalcRecalculate ==
    RecalcCall("sheet_recalculate", <<0, 0>>, sheet_recalculate(state.sheet))

NextRecalc ==
    \/ RecalcSetNumber
    \/ RecalcSetFormula
    \/ RecalcSetFormat
    \/ RecalcRecalculate

SpecRecalc == InitRecalc /\ [][NextRecalc]_vars


(***************************************************************************)
(* Grammar: expressions evaluated character by character over a small     *)
(* sheet, well-formed ones and ones that break the grammar.                *)
(***************************************************************************)
ScanDepth == 3
ScanPos == {<<0, 0>>, <<0, 1>>, <<1, 0>>, <<1, 1>>}
ScanNumbers == {1 * Scale, 2 * Scale}
ScanStrings == {"AB"}

\* Well-formed expressions.
WellFormed ==
    {<<"=", "S", "U", "M", "(", "A", "1", ":", "B", "2", ")">>,
     <<"=", "M", "A", "X", "(", "A", "1", ":", "B", "2", ")", "+", "1">>,
     <<"=", "(", "1", "+", "2", ")", "*", "2">>,
     <<"=", "P", "O", "W", "E", "R", "(", "2", ",", "3", ")">>,
     <<"=", "A", "1", "=", "\"", "A", "B", "\"">>,
     <<"=", "V", "L", "O", "O", "K", "U", "P", "(", "\"", "A", "B", "\"", ",",
       "A", "1", ":", "B", "2", ",", "2", ",", "0", ")">>}

\* A parenthesised expression or a function call without its closing ')'.
MissingClose ==
    {<<"=", "(", "1", "+", "2">>,
     <<"=", "P", "O", "W", "E", "R", "(", "2", ",", "3">>,
     <<"=", "V", "L", "O", "O", "K", "U", "P", "(", "\"", "A", "B", "\"", ",",
       "A", "1", ":", "B", "2", ",", "2", ",", "0">>,
     <<"=", "S", "U", "M", "(", "A", "1", ":", "B", "2">>,
     <<"=", "A", "V", "G", "(", "A", "1", ":", "B", "2">>,
     <<"=", "M", "A", "X", "(", "A", "1", ":", "B", "2">>,
     <<"=", "M", "I", "N", "(", "A", "1", ":", "B", "2">>,
     <<"=", "M", "E", "D", "I", "A", "N", "(", "A", "1", ":", "B", "2">>,
     <<"=", "M", "O", "D", "E", "(", "A", "1", ":", "B", "2">>}

\* No ',' between two arguments of a function.
MissingComma ==
    {<<"=", "P", "O", "W", "E", "R", "(", "2", " ", "3", ")">>,
     <<"=", "V", "L", "O", "O", "K", "U", "P", "(", "\"", "A", "B", "\"", " ",
       "A", "1", ":", "B", "2", ",", "2", ",", "0", ")">>}

\* A string literal without its closing quote.
UnterminatedString ==
    {<<"=", "V", "L", "O", "O", "K", "U", "P", "(", "\"", "A", "B">>,
     <<"=", "A", "1", "=", "\"", "A", "B">>}

\* An operator or an opening parenthesis with no factor behind it.
EmptyFactor ==
    {<<"=">>, <<"=", "1", "+">>, <<"=", "2", "*">>, <<"=", "(", ")">>}

GrammarViolations ==
    MissingClose \cup MissingComma \cup UnterminatedString \cup EmptyFactor

\* What the bytes behind the terminating NUL of the expression may hold.
Behind == {<<>>, <<"+", "1">>, <<")">>, <<"*", "(">>}

\* The expression in memory: text, NUL, and what lies behind it.
Memory(text, behind) == text \o <<NUL>> \o behind \o <<NUL>>

InitScan ==
    /\ state = [app_init EXCEPT !.sheet = sheet_new(NumRows, NumCols)]
    /\ hist = NoHist
    /\ nops = 0
    /\ script = <<>>

ScanCall(name, p, sheet) ==
    /\ nops < ScanDepth
    /\ nops' = nops + 1
    /\ script' = script
    /\ state' = [state EXCEPT !.sheet = sheet]
    /\ hist' = [NoHist EXCEPT !.last_op = name, !.aff = {p}]

ScanSetNumber ==
    \E p \in ScanPos, v \in ScanNumbers :
        ScanCall("sheet_set_number", p, sheet_set_number(state.sheet, p[1], p[2], v))

ScanSetString ==
    \E p \in ScanPos, str \in ScanStrings :
        ScanCall("sheet_set_string", p, sheet_set_string(state.sheet, p[1], p[2], str))

\* evaluate_formula on an expression; the bytes behind its terminator are
\* whatever the allocator left there.
ScanEvaluate ==
    /\ nops < ScanDepth
    /\ \E text \in WellFormed \cup GrammarViolations, behind \in Behind :
        /\ hist' = [NoHist EXCEPT !.last_op = "evaluate_formula", !.text = text,
                                  !.behind = behind,
                                  !.scanned = evaluate_formula_at(state.sheet,
                                                  Memory(text, behind))]
        /\ nops' = nops + 1
        /\ UNCHANGED <<state, script>>

NextScan ==
    \/ ScanSetNumber
    \/ ScanSetString
    \/ ScanEvaluate

SpecScan == InitScan /\ [][NextScan]_vars


(***************************************************************************)
(* Snapshots: numbers, texts and formulas typed into the cell under the    *)
(* cursor, cleared, undone and redone, from the fresh sheet and from a     *)
(* sheet whose undo log is full.                                           *)
(***************************************************************************)
OwnDepth == 4
OwnTexts == {"5", "hello", "=B1+1"}

InitOwn ==
    /\ state = app_init
    /\ hist = NoHist
    /\ nops = 0
    /\ script \in {SessionFresh, SessionFullLog}

\* The handler of op, and what it does to the strings of the log.
OwnDo(op) ==
    /\ state' = Handle(state, op)
    /\ hist' = [NoHist EXCEPT !.last_op = op.name,
                              !.mem = MemStep(hist.mem, state, op)]

\* The next key press of the opening session.
OwnSession ==
    /\ script # <<>>
    /\ OwnDo(Head(script))
    /\ script' = Tail(script)
    /\ nops' = nops

OwnStep(op) ==
    /\ script = <<>>
    /\ nops < OwnDepth
    /\ OwnDo(op)
    /\ nops' = nops + 1
    /\ script' = script

OwnInput == \E text \in OwnTexts : OwnStep(InputOp(FormulaMode, text))
OwnClear == OwnStep(KeyOp("clear"))
OwnUndo == OwnStep(KeyOp("undo"))
OwnRedo == OwnStep(KeyOp("redo"))

NextOwn ==
    \/ OwnSession
    \/ OwnInput
    \/ OwnClear
    \/ OwnUndo
    \/ OwnRedo

SpecOwn == InitOwn /\ [][NextOwn]_vars


(***************************************************************************)
(* Properties                                                              *)
(***************************************************************************)
CellAt(sheet, p) == sheet_get_cell(sheet, p[1], p[2])

\* An absent cell reads as a fresh one.
Present(cell) == IF cell.exists THEN cell ELSE cell_new(0, 0)

\* Content: type and value.
Content(cell) ==
    LET c == Present(cell)
    IN [type |-> c.type, number |-> c.number, string |-> c.string,
        expression |-> c.expression]

\* Content plus format, format_style, colors and alignment.
ContentAndFormat(cell) ==
    LET c == Present(cell)
    IN [content |-> Content(cell), format |-> c.format,
        format_style |-> c.format_style, text_color |-> c.text_color,
        background_color |-> c.background_color, align |-> c.align]

\* C1: after a recorded mutation followed by one undo, every affected cell
\* equals its pre-mutation state in content, format, format_style,
\* text_color, background_color and align.
C1_UndoRestoresPreMutationState ==
    hist.phase = "mut_undo" =>
        \A p \in hist.aff :
            ContentAndFormat(CellAt(state.sheet, p))
                = ContentAndFormat(CellAt(hist.pre_sheet, p))

\* C2: after a recorded mutation, one undo and one redo, every affected cell
\* equals its state just after the mutation, for cell and range records.
C2_RedoRestoresPostMutationState ==
    hist.phase = "mut_undo_redo" =>
        \A p \in hist.aff :
            ContentAndFormat(CellAt(state.sheet, p))
                = ContentAndFormat(CellAt(hist.post_sheet, p))

UserMutationKinds ==
    {"input", "clear", "paste_cell", "paste_range", "sys_paste", "format",
     "range_format", "color", "resize"}

\* The before-state held by one CellUndoData is that of cell.
SnapshotOf(data, cell) ==
    LET c == Present(cell)
    IN /\ data.old_type = c.type
       /\ data.old_format = c.format
       /\ data.old_format_style = c.format_style
       /\ data.old_text_color = c.text_color
       /\ data.old_background_color = c.background_color
       /\ c.type = "CELL_NUMBER" => data.old_data.number = c.number
       /\ c.type = "CELL_STRING" => data.old_data.string = c.string
       /\ c.type = "CELL_FORMULA" => data.old_data.expression = c.expression

\* The step from before to after appended one record, taken from before.
RecordAppended(before, after) ==
    LET b == before.undo_buffer
        a == after.undo_buffer
        newest == Slot(a, a.count - 1)
    IN /\ a.count = Min(b.current_index, MAX_UNDO_ACTIONS - 1) + 1
       /\ a.current_index = a.count
       /\ IF newest.type = "UNDO_RANGE_CHANGE"
          THEN \A k \in 1 .. Len(newest.range.cell_data) :
                  SnapshotOf(newest.range.cell_data[k],
                             sheet_get_cell(before.sheet,
                                            newest.range.cell_data[k].row,
                                            newest.range.cell_data[k].col))
          ELSE /\ newest.cell.row = before.cursor_row
               /\ newest.cell.col = before.cursor_col
               /\ SnapshotOf(newest.cell,
                             sheet_get_cell(before.sheet, before.cursor_row,
                                            before.cursor_col))

EngineChanged(before, after) ==
    \/ after.sheet.cells # before.sheet.cells
    \/ after.sheet.col_widths # before.sheet.col_widths
    \/ after.sheet.row_heights # before.sheet.row_heights

\* C3: every user-initiated mutation of the engine state (entry, clear,
\* pastes including the system clipboard, format and range format, colors,
\* Alt+arrow resize) appends exactly one undo record holding the state
\* before the mutation.
C3_EveryMutationRecordsOnce ==
    [][(hist'.last_op \in UserMutationKinds /\ EngineChanged(state, state'))
          => RecordAppended(state, state')]_vars

\* C4: the undo log always satisfies 0 <= current_index <= count <= 100.
C4_LogBounds ==
    /\ 0 <= state.undo_buffer.current_index
    /\ state.undo_buffer.current_index <= state.undo_buffer.count
    /\ state.undo_buffer.count <= MAX_UNDO_ACTIONS

\* A record was just made on a full log, after undo and redo were used.
C4_Witness ==
    /\ Len(hist.log) > MAX_UNDO_ACTIONS
    /\ hist.last_op \in RecordingKinds
    /\ state.undo_buffer.count = MAX_UNDO_ACTIONS

\* C5: a record made with the cursor below the end of the log discards every
\* undone entry (the log then holds the entries below the cursor and the new
\* one); immediately after any record current_index = count, and a redo then
\* reports that there is nothing to redo and leaves grid and log unchanged.
C5_RecordDiscardsRedo ==
    /\ [][hist'.last_op \in RecordingKinds
            => state'.undo_buffer.count
                  = Min(state.undo_buffer.current_index, MAX_UNDO_ACTIONS - 1) + 1]_vars
    /\ [](hist.last_op \in RecordingKinds
            => state.undo_buffer.current_index = state.undo_buffer.count)
    /\ [][(hist.last_op \in RecordingKinds /\ hist'.last_op = "redo")
            => /\ state'.sheet = state.sheet
               /\ state'.undo_buffer = state.undo_buffer
               /\ state'.status_message = "Nothing to redo"]_vars

\* A redo was pressed right after a record that discarded undone entries.
C5_Witness ==
    /\ hist.prev_op \in RecordingKinds
    /\ hist.last_op = "redo"
    /\ hist.cut > 0
    /\ state.status_message = "Nothing to redo"

\* The log slot holds the record the history entry describes.
EntryInSlot(entry, action) ==
    IF entry.kind = "paste_range"
    THEN /\ action.type = "UNDO_RANGE_CHANGE"
         /\ action.range.start_row = entry.row
         /\ action.range.start_col = entry.col
         /\ SnapshotOf(action.range.cell_data[1], entry.before)
    ELSE /\ action.type = "UNDO_CELL_CHANGE"
         /\ action.cell.row = entry.row
         /\ action.cell.col = entry.col
         /\ SnapshotOf(action.cell, entry.before)

\* C6: a record on a full log drops only the oldest entry and keeps the
\* order of the others: the log holds the most recent records (at most 100),
\* oldest first, and each undo of a run reverts the next most recent
\* recorded mutation, so 100 undos revert the 100 most recent in reverse.
C6_LogHoldsMostRecentRecords ==
    LET buffer == state.undo_buffer
        dropped == Len(hist.log) - buffer.count
    IN /\ buffer.count = Min(Len(hist.log), MAX_UNDO_ACTIONS)
       /\ \A i \in 1 .. buffer.count :
             EntryInSlot(hist.log[dropped + i], Slot(buffer, i - 1))
       /\ hist.undo_run > 0 =>
             LET entry == hist.log[dropped + buffer.current_index + 1]
             IN Content(sheet_get_cell(state.sheet, entry.row, entry.col))
                   = Content(entry.before)

\* 100 consecutive undos after records that evicted the oldest entries.
C6_Witness ==
    /\ Len(hist.log) > MAX_UNDO_ACTIONS + 1
    /\ hist.undo_run = MAX_UNDO_ACTIONS
    /\ state.undo_buffer.current_index = 0

\* Content and every formatting attribute a paste is to carry over.
ContentAndFormatting(cell) ==
    LET c == Present(cell)
    IN [content |-> Content(cell), format |-> c.format,
        format_style |-> c.format_style, precision |-> c.precision,
        align |-> c.align, text_color |-> c.text_color,
        background_color |-> c.background_color]

CursorPos == <<state.cursor_row, state.cursor_col>>

\* C7: after a single-cell copy and a paste onto another cell, the source
\* not modified in between, the destination equals the source in content,
\* format, format_style, precision, align and colors, and displays the same
\* text (a percentage shows as a percentage).
C7_CellPasteEqualsSource ==
    (/\ hist.last_op = "paste_cell"
     /\ hist.copy_valid
     /\ CursorPos # hist.copy_pos
     /\ CellAt(state.sheet, hist.copy_pos) = hist.copy_src)
    => /\ ContentAndFormatting(CellAt(state.sheet, CursorPos))
             = ContentAndFormatting(hist.copy_src)
       /\ sheet_get_display_value(state.sheet, state.cursor_row, state.cursor_col)
             = sheet_get_display_value(state.sheet, hist.copy_pos[1],
                                       hist.copy_pos[2])

\* C8: the single-cell clipboard is a snapshot: when the source was edited
\* or cleared between copy and paste, the paste writes the content and
\* formatting the source had at copy time.
C8_CellClipboardIsSnapshot ==
    (/\ hist.last_op = "paste_cell"
     /\ hist.copy_valid
     /\ CursorPos # hist.copy_pos
     /\ CellAt(state.sheet, hist.copy_pos) # hist.copy_src)
    => ContentAndFormatting(CellAt(state.sheet, CursorPos))
          = ContentAndFormatting(hist.copy_src)

\* The clipboard positions (i, j) of the last range copy.
CopiedOffsets ==
    (0 .. SelMaxRow(hist.rcopy_sheet) - SelMinRow(hist.rcopy_sheet))
        \X (0 .. SelMaxCol(hist.rcopy_sheet) - SelMinCol(hist.rcopy_sheet))

\* C9: after a range copy and a range paste, every target cell inside the
\* grid equals the source cell as it was at copy time, in content, format,
\* format_style, precision, align, text_color and background_color.
C9_RangePasteEqualsSource ==
    (hist.last_op = "paste_range" /\ hist.rcopy_valid)
    => \A o \in CopiedOffsets :
          LET target == <<state.cursor_row + o[1], state.cursor_col + o[2]>>
              source == <<SelMinRow(hist.rcopy_sheet) + o[1],
                          SelMinCol(hist.rcopy_sheet) + o[2]>>
          IN target \in Pos =>
                ContentAndFormatting(CellAt(state.sheet, target))
                   = ContentAndFormatting(CellAt(hist.rcopy_sheet, source))

\* C10: a range copy followed at once by a paste at the range's own top-left
\* corner leaves display_value of every cell of the sheet as it was before
\* the copy, formula cells included.
C10_PasteInPlaceIsNoOp ==
    (/\ hist.last_op = "paste_range"
     /\ hist.prev_op = "copy_range"
     /\ state.cursor_row = SelMinRow(hist.rcopy_sheet)
     /\ state.cursor_col = SelMinCol(hist.rcopy_sheet))
    => \A p \in Pos :
          sheet_get_display_value(state.sheet, p[1], p[2])
             = sheet_get_display_value(hist.rcopy_sheet, p[1], p[2])

\* The rectangle a range paste at the cursor addresses, in or out of the grid.
PasteRectangle ==
    (state.cursor_row .. state.cursor_row + state.sheet.range_clipboard.rows - 1)
        \X (state.cursor_col .. state.cursor_col + state.sheet.range_clipboard.cols - 1)

\* C11: a range paste whose rectangle overflows the grid writes the targets
\* inside the grid, skips the others without error, and in every case leaves
\* the content and formatting of every cell outside the rectangle unchanged.
C11_RangePasteClipsToGrid ==
    hist.last_op = "paste_range" =>
        /\ DOMAIN state.sheet.cells = Pos
        /\ state.status_message = "Range pasted"
        /\ \A p \in PasteRectangle \cap Pos :
              Content(CellAt(state.sheet, p))
                 = Content(state.sheet.range_clipboard.cells[
                              <<p[1] - state.cursor_row, p[2] - state.cursor_col>>])
        /\ \A p \in Pos \ PasteRectangle :
              ContentAndFormatting(CellAt(state.sheet, p))
                 = ContentAndFormatting(CellAt(hist.pre_sheet, p))

\* A paste of a two-cell row at the last column: one target is off the grid,
\* and a cell with content lies outside the rectangle.
C11_Witness ==
    /\ hist.last_op = "paste_range"
    /\ PasteRectangle \ Pos # {}
    /\ PasteRectangle \cap Pos # {}
    /\ \E p \in Pos \ PasteRectangle : CellAt(state.sheet, p).exists

\* C12: copy and paste follow the selection state: without a selection
\* Ctrl+C fills the single-cell clipboard from the current cell, the next
\* Ctrl+V pastes that cell even when a range was copied earlier, and a range
\* is pasted only when the most recent copy was a range copy.
C12_PasteFollowsLastCopy ==
    /\ hist.last_op = "copy_cell" =>
          state.clipboard_cell
             = sheet_set_clipboard_cell(CellAt(state.sheet, CursorPos))
    /\ hist.last_op = "paste_range" => hist.last_copy = "range"
    /\ (hist.last_op = "paste_cell" /\ hist.prev_op = "copy_cell") =>
          hist.last_copy = "cell"

\* The position the last engine call addressed.
ApiTarget == IF hist.aff = {} THEN <<0, 0>> ELSE CHOOSE p \in hist.aff : TRUE

\* The engine calls that write the content of one cell.
ContentWrites ==
    {"sheet_set_number", "sheet_set_string", "sheet_set_formula",
     "sheet_clear_cell"}

\* C13: after sheet_set_number, sheet_set_string or sheet_set_formula on a
\* position of the grid, and after sheet_clear_cell on an existing cell,
\* needs_recalc is set.
C13_ContentWritesMarkDirty ==
    /\ (/\ hist.last_op \in {"sheet_set_number", "sheet_set_string",
                             "sheet_set_formula"}
        /\ ApiTarget \in Pos)
       => state.sheet.needs_recalc = 1
    /\ (/\ hist.last_op = "sheet_clear_cell"
        /\ CellAt(hist.pre_sheet, ApiTarget).exists)
       => state.sheet.needs_recalc = 1

\* The cells an expression refers to.
RECURSIVE RefsOf(_)
RefsOf(t) ==
    CASE t.k = "ref" -> {<<t.row, t.col>>}
      [] t.k \in {"add", "sub", "mul", "div"} -> RefsOf(t.l) \cup RefsOf(t.r)
      [] OTHER -> {}

\* The formula cells all of whose references are non-formula cells.
FirstLevelFormulas(sheet) ==
    {p \in Pos :
        /\ CellAt(sheet, p).exists
        /\ CellAt(sheet, p).type = "CELL_FORMULA"
        /\ \A q \in RefsOf(ParseTree(CellAt(sheet, p).expression)) :
              CellAt(sheet, q).type # "CELL_FORMULA"}

\* C14: at the end of every input tick needs_recalc is clear and every
\* formula cell whose references are all non-formula cells holds the value
\* or error its expression evaluates to on the current grid.
C14_QuiescentAfterTick ==
    /\ state.sheet.needs_recalc = 0
    /\ \A p \in FirstLevelFormulas(state.sheet) :
          [value |-> CellAt(state.sheet, p).cached_value,
           error |-> CellAt(state.sheet, p).error]
             = evaluate_formula(state.sheet, CellAt(state.sheet, p).expression)

\* The formatting, color and sizing attributes of a cell.
Formatting(cell) ==
    [format |-> cell.format, format_style |-> cell.format_style,
     text_color |-> cell.text_color, background_color |-> cell.background_color,
     width |-> cell.width, precision |-> cell.precision, align |-> cell.align]

\* C15: clearing an existing cell, and overwriting it with a number or a
\* formula, leave format, format_style, text_color, background_color, width,
\* precision and align unchanged; overwriting it with text leaves them
\* unchanged except align, which becomes 0 (left).
C15_ContentWritesKeepFormatting ==
    (hist.last_op \in ContentWrites /\ CellAt(hist.pre_sheet, ApiTarget).exists) =>
        /\ hist.last_op \in {"sheet_clear_cell", "sheet_set_number",
                             "sheet_set_formula"}
              => Formatting(CellAt(state.sheet, ApiTarget))
                    = Formatting(CellAt(hist.pre_sheet, ApiTarget))
        /\ hist.last_op = "sheet_set_string"
              => Formatting(CellAt(state.sheet, ApiTarget))
                    = [Formatting(CellAt(hist.pre_sheet, ApiTarget))
                          EXCEPT !.align = 0]

\* Text written over a right-aligned red percentage.
C15_Witness ==
    /\ hist.last_op = "sheet_set_string"
    /\ CellAt(hist.pre_sheet, ApiTarget).exists
    /\ CellAt(hist.pre_sheet, ApiTarget).format = "FORMAT_PERCENTAGE"
    /\ CellAt(hist.pre_sheet, ApiTarget).text_color # -1
    /\ CellAt(state.sheet, ApiTarget).type = "CELL_STRING"

\* The last engine call was addressed to a row or column outside the grid.
OutOfGridCall ==
    \/ /\ hist.last_op \in ContentWrites \cup {"sheet_get_or_create_cell"}
       /\ ApiTarget \notin Pos
    \/ /\ hist.last_op = "sheet_resize_columns_in_range"
       /\ {ApiTarget[1], ApiTarget[2]} \ (0 .. NumCols - 1) # {}
    \/ /\ hist.last_op = "sheet_resize_rows_in_range"
       /\ {ApiTarget[1], ApiTarget[2]} \ (0 .. NumRows - 1) # {}

\* C16: set_number, set_text, set_formula, clear_cell, get_or_create and
\* resize_columns/resize_rows addressed to a row or column outside the grid
\* leave the whole sheet as it was: cells, column widths, row heights and
\* needs_recalc, and no cell is created.
C16_OutOfGridIsNoOp ==
    OutOfGridCall => state.sheet = hist.pre_sheet

\* A column resize whose range starts inside the grid and ends beyond it.
C16_Witness ==
    /\ hist.last_op = "sheet_resize_columns_in_range"
    /\ ApiTarget = <<0, NumCols>>
    /\ hist.prev_op = "sheet_set_formula"
    /\ state.sheet.needs_recalc = 1

\* The lines a resize of the range r of a grid of n lines acts on.
ResizedLines(r, n) ==
    IF r[1] < 0 \/ r[2] >= n THEN {} ELSE r[1] .. r[2]

\* C17: every column width is in [1, 50] and every row height in [1, 10]
\* after any sequence of resizes with any delta and of set_column_width /
\* set_row_height with any size, and a resize at a bound saturates: width 1
\* with delta -1 stays 1, width 50 with delta +1 stays 50.
C17_SizesWithinBounds ==
    /\ \A c \in DOMAIN state.sheet.col_widths :
          state.sheet.col_widths[c] \in MinSize .. MaxColWidth
    /\ \A r \in DOMAIN state.sheet.row_heights :
          state.sheet.row_heights[r] \in MinSize .. MaxRowHeight
    /\ hist.last_op = "sheet_resize_columns_in_range" =>
          \A c \in ResizedLines(ApiTarget, NumCols) :
             /\ (hist.pre_sheet.col_widths[c] = MinSize /\ hist.arg = -1)
                   => state.sheet.col_widths[c] = MinSize
             /\ (hist.pre_sheet.col_widths[c] = MaxColWidth /\ hist.arg = 1)
                   => state.sheet.col_widths[c] = MaxColWidth

\* What one cell adds to the sum of a range: its number, its cached value
\* when it is a formula without error, nothing otherwise.
Contribution(cell) ==
    IF ~cell.exists THEN 0
    ELSE CASE cell.type = "CELL_NUMBER" -> cell.number
           [] cell.type = "CELL_FORMULA" ->
                IF cell.error = "ERROR_NONE" THEN cell.cached_value ELSE 0
           [] OTHER -> 0

RowContribution(sheet, row, range) ==
    SumFromTo([i \in 1 .. range.end_col - range.start_col + 1 |->
                 Contribution(sheet_get_cell(sheet, row, range.start_col + i - 1))],
              1, range.end_col - range.start_col + 1)

RangeContribution(sheet, range) ==
    SumFromTo([i \in 1 .. range.end_row - range.start_row + 1 |->
                 RowContribution(sheet, range.start_row + i - 1, range)],
              1, range.end_row - range.start_row + 1)

Evaluated(names) ==
    /\ hist.last_op = "evaluate_formula"
    /\ ParseTree(hist.formula).k = "func"
    /\ ParseTree(hist.formula).name \in names

\* C18: SUM over a range inside the grid, whatever its number of cells, is
\* the sum of what every cell of the range contributes: the stored number of
\* a Number cell, the cached value of a Formula cell without error, 0 for an
\* Empty or absent cell, nothing for Text cells and errored formulas.
C18_SumIsSumOfRange ==
    Evaluated({"SUM"}) =>
        hist.result =
            Ok(RangeContribution(state.sheet, ParseTree(hist.formula).range))

\* The values the range of the evaluated formula contributes, in cell order.
EvaluatedValues ==
    get_range_values(state.sheet, ParseTree(hist.formula).range, MAX_RANGE_VALUES)

\* C19: MEDIAN and MODE over a range depend only on the multiset of the
\* contributed values: whatever the arrangement of the values across the
\* cells, the result is the one computed for the sorted arrangement.
C19_MedianModeOfMultiset ==
    /\ Evaluated({"MEDIAN"}) =>
          hist.result = Ok(func_median(SortedValues(EvaluatedValues)))
    /\ Evaluated({"MODE"}) =>
          hist.result = Ok(func_mode(SortedValues(EvaluatedValues)))


\* C20: with A1 a number and B1 the formula =IF(A1>5,"High","Low"), after a
\* recalculation B1 displays exactly the literal of the branch A1 selects:
\* "High" when A1 is greater than 5 (A1 = 10), "Low" otherwise (A1 = 3).
C20_IfDisplaysSelectedLiteral ==
    (/\ hist.last_op = "sheet_recalculate"
     /\ CellAt(state.sheet, <<0, 0>>).exists
     /\ CellAt(state.sheet, <<0, 0>>).type = "CELL_NUMBER"
     /\ CellAt(state.sheet, <<0, 1>>).exists
     /\ CellAt(state.sheet, <<0, 1>>).type = "CELL_FORMULA"
     /\ CellAt(state.sheet, <<0, 1>>).expression = IfFormula)
    => sheet_get_display_value(state.sheet, 0, 1) =
         (IF CellAt(state.sheet, <<0, 0>>).number > 5 * Scale
          THEN "High" ELSE "Low")

\* The VLOOKUP call of the evaluated formula, and its table.
Looked == ParseTree(hist.formula)

LookedUp(string_key) ==
    /\ hist.last_op = "evaluate_formula"
    /\ Looked.k = "vlookup"
    /\ (Looked.lookup_str # NULL) = string_key

TableRows == Looked.range.start_row .. Looked.range.end_row

KeyCell(row) == sheet_get_cell(state.sheet, row, Looked.range.start_col)

ResultCell(row) ==
    sheet_get_cell(state.sheet, row, Looked.range.start_col + Looked.col_index - 1)

\* Rows whose first-column cell holds text equal to the string key.
TextMatches ==
    {row \in TableRows : /\ KeyCell(row).exists
                         /\ KeyCell(row).type = "CELL_STRING"
                         /\ KeyCell(row).string = Looked.lookup_str}

FirstOf(rows) == CHOOSE row \in rows : \A other \in rows : row <= other

\* C21: VLOOKUP with a string key takes the first row whose first-column
\* text equals the key and answers from that row's result cell alone,
\* whatever the cell's type: the lookup succeeds, and its result is the one
\* obtained from the table cut off after that row. Without a matching row
\* the result is the N/A error.
C21_StringKeyFirstRowDecides ==
    LookedUp(TRUE) =>
        IF TextMatches = {} THEN hist.result = Err("ERROR_NA")
        ELSE /\ hist.result.error = "ERROR_NONE"
             /\ hist.result =
                  func_vlookup(state.sheet,
                               [Looked EXCEPT !.range.end_row = FirstOf(TextMatches)])

\* Rows whose first-column cell is numeric and qualifies for the key: equal
\* to it for an exact match, not above it for an approximate match.
NumericMatches ==
    {row \in TableRows :
        /\ KeyCell(row).exists
        /\ VlookupNumeric(KeyCell(row))
        /\ IF Looked.exact_match # 0
           THEN VlookupNumber(KeyCell(row)) = Looked.lookup_value
           ELSE VlookupNumber(KeyCell(row)) <= Looked.lookup_value}

\* The rows the lookup may answer from: the first qualifying row for an
\* exact match, the qualifying rows with the largest value otherwise.
MatchingRows ==
    IF Looked.exact_match # 0 THEN {FirstOf(NumericMatches)}
    ELSE {row \in NumericMatches :
            \A other \in NumericMatches :
                VlookupNumber(KeyCell(other)) <= VlookupNumber(KeyCell(row))}

C23_LabelRoundTrip ==
    /\ hist.last_op = "parse_cell_reference" =>
          hist.parsed = [ok |-> 1, row |-> ApiTarget[1], col |-> ApiTarget[2]]
    /\ hist.last_op = "cell_reference_to_string" /\ ApiTarget[2] = 25 =>
          hist.label = <<"Z">> \o DecimalChars(ApiTarget[1] + 1)
    /\ hist.last_op = "cell_reference_to_string" /\ ApiTarget[2] = 26 =>
          hist.label = <<"A", "A">> \o DecimalChars(ApiTarget[1] + 1)

\* The label of the last cell of the grid, CV1000, parsed back.
C23_Witness ==
    /\ hist.last_op = "parse_cell_reference"
    /\ hist.label = <<"C", "V", "1", "0", "0", "0">>
    /\ hist.parsed = [ok |-> 1, row |-> GridRows - 1, col |-> GridCols - 1]

\* The log of the session in which an empty cell received 5, then the text
\* "hello", and was then cleared, starting from an empty undo log, with
\* nothing but undos and redos after it.
TypedLog ==
    /\ nops = 0
    /\ Len(hist.log) = 3
    /\ <<hist.log[1].kind, hist.log[2].kind, hist.log[3].kind>>
          = <<"input", "input", "clear">>
    /\ \A i \in {2, 3} : /\ hist.log[i].row = hist.log[1].row
                         /\ hist.log[i].col = hist.log[1].col
    /\ ~hist.log[1].before.exists
    /\ hist.log[2].before.type = "CELL_NUMBER"
    /\ hist.log[2].before.number = 5 * Scale
    /\ hist.log[3].before.type = "CELL_STRING"
    /\ hist.log[3].before.string = "hello"

TypedCell == sheet_get_cell(state.sheet, hist.log[1].row, hist.log[1].col)

\* C24: writing 5 into an empty cell, overwriting it with the text "hello"
\* and clearing it leaves three undo records; three undos make the cell
\* empty with default formatting, the default alignment included, and three
\* redos bring back the cleared state.
C24_WriteOverwriteClearUndoRedo ==
    TypedLog =>
        /\ hist.last_op = "clear" =>
              /\ state.undo_buffer.count = 3
              /\ state.undo_buffer.current_index = 3
        /\ hist.last_op = "undo" /\ hist.undo_run = 3 =>
              /\ TypedCell.type = "CELL_EMPTY"
              /\ TypedCell.exists =>
                    Formatting(TypedCell)
                       = Formatting(cell_new(hist.log[1].row, hist.log[1].col))
        /\ hist.last_op = "redo" /\ state.undo_buffer.current_index = 3 =>
              TypedCell = sheet_get_cell(hist.post_sheet, hist.log[1].row,
                                         hist.log[1].col)

\* C25: after any sequence of keys the cursor is a position of the grid,
\* and so are both endpoints of an active selection.
C25_CursorAndSelectionInGrid ==
    /\ InGrid(state.sheet, state.cursor_row, state.cursor_col)
    /\ state.sheet.selection.is_active # 0 =>
          /\ InGrid(state.sheet, state.sheet.selection.start_row,
                    state.sheet.selection.start_col)
          /\ InGrid(state.sheet, state.sheet.selection.end_row,
                    state.sheet.selection.end_col)

\* A selection dragged from the first cell to the last cell of the grid.
C25_Witness ==
    /\ hist.last_op = "move"
    /\ state.cursor_row = state.sheet.rows - 1
    /\ state.cursor_col = state.sheet.cols - 1
    /\ state.sheet.selection.is_active # 0
    /\ state.sheet.selection.start_row = 0
    /\ state.sheet.selection.start_col = 0
    /\ state.sheet.selection.end_row = state.sheet.rows - 1
    /\ state.sheet.selection.end_col = state.sheet.cols - 1

\* A recalculation that found the sheet dirty has just run.
Recalculated ==
    /\ hist.last_op = "sheet_recalculate"
    /\ hist.pre_sheet.needs_recalc # 0

\* p comes before q in the scan: row by row, left to right.
ScannedBefore(p, q) == p[1] < q[1] \/ (p[1] = q[1] /\ p[2] < q[2])

FormulaCells(sheet) ==
    {p \in Pos : sheet.cells[p].exists /\ sheet.cells[p].type = "CELL_FORMULA"}

\* The sheet as the evaluation of the formula at p finds it in a single
\* pass: the cells scanned before p as the pass left them, p and the cells
\* after it as they were before the pass.
SheetSeenAt(p) ==
    [hist.pre_sheet EXCEPT !.cells =
        [q \in Pos |-> IF ScannedBefore(q, p) THEN state.sheet.cells[q]
                       ELSE hist.pre_sheet.cells[q]]]

SeenResult(p) == evaluate_formula(SheetSeenAt(p), hist.pre_sheet.cells[p].expression)

\* C26: one recalculation evaluates every formula cell once, in row-major
\* order: a reference to a formula cell later in the scan reads the value
\* cached before the pass, a reference to one earlier in the scan reads the
\* value computed in this pass; nothing but the caches changes.
C26_SinglePassRowMajor ==
    Recalculated =>
        \A p \in Pos :
            IF p \in FormulaCells(hist.pre_sheet)
            THEN state.sheet.cells[p] =
                    [hist.pre_sheet.cells[p] EXCEPT
                        !.cached_value = SeenResult(p).value,
                        !.error = SeenResult(p).error]
            ELSE state.sheet.cells[p] = hist.pre_sheet.cells[p]

\* A1 = B1 + 1 and B1 = A1 + 1 after one pass: A1 was computed from the old
\* cache of B1, B1 from the new cache of A1.
C26_Witness ==
    /\ Recalculated
    /\ {<<0, 0>>, <<0, 1>>} \subseteq FormulaCells(state.sheet)
    /\ state.sheet.cells[<<0, 0>>].expression = "=B1+1"
    /\ state.sheet.cells[<<0, 1>>].expression = "=A1+1"
    /\ state.sheet.cells[<<0, 0>>].cached_value
          = hist.pre_sheet.cells[<<0, 1>>].cached_value + 1 * Scale
    /\ state.sheet.cells[<<0, 1>>].cached_value
          = state.sheet.cells[<<0, 0>>].cached_value + 1 * Scale
    /\ state.sheet.cells[<<0, 0>>].cached_value
          # state.sheet.cells[<<0, 1>>].cached_value + 1 * Scale

\* The cell the formula at p refers to (every formula of RecalcFormulas
\* holds one bare reference).
ReferredBy(p) ==
    With(ParseTree(hist.pre_sheet.cells[p].expression), LAMBDA t :
      IF t.l.k = "ref" THEN <<t.l.row, t.l.col>> ELSE <<t.r.row, t.r.col>>)

\* The error the formula at p meets when it dereferences its reference:
\* that of an errored formula cell, ERROR_NONE otherwise.
ErrorMet(p) ==
    With(SheetSeenAt(p).cells[ReferredBy(p)], LAMBDA cell :
      IF cell.exists /\ cell.type = "CELL_FORMULA" THEN cell.error
      ELSE "ERROR_NONE")

\* C27: a formula with a bare reference to a formula cell whose cached error
\* is E evaluates to E, stores E in its own cache and displays the token of
\* E whatever its number format; the other cells are evaluated all the same.
C27_ErrorsPropagateAndStayLocal ==
    Recalculated =>
        \A p \in FormulaCells(hist.pre_sheet) :
            /\ ErrorMet(p) # "ERROR_NONE" =>
                  /\ state.sheet.cells[p].error = ErrorMet(p)
                  /\ sheet_get_display_value(state.sheet, p[1], p[2])
                        = ErrorToken(ErrorMet(p))
            /\ state.sheet.cells[p].error = SeenResult(p).error

\* A2 = B1 + 1 in percentage format adopts and shows the division error of
\* B1 = 1/A1.
C27_Witness ==
    /\ Recalculated
    /\ {<<0, 1>>, <<1, 0>>} \subseteq FormulaCells(state.sheet)
    /\ state.sheet.cells[<<0, 1>>].expression = "=1/A1"
    /\ state.sheet.cells[<<0, 1>>].error = "ERROR_DIV_ZERO"
    /\ state.sheet.cells[<<1, 0>>].expression = "=B1+1"
    /\ state.sheet.cells[<<1, 0>>].format = "FORMAT_PERCENTAGE"
    /\ state.sheet.cells[<<1, 0>>].error = "ERROR_DIV_ZERO"
    /\ sheet_get_display_value(state.sheet, 1, 0) = "#DIV/0!"

\* C30: sheet_recalculate clears needs_recalc; called again with no
\* mutation in between it changes nothing, so a cache that is stale because
\* of a reference to a later cell stays stale.
C30_RecalculateGatedIdempotent ==
    hist.last_op = "sheet_recalculate" =>
        /\ state.sheet.needs_recalc = 0
        /\ hist.pre_sheet.needs_recalc = 0 => state.sheet = hist.pre_sheet
        /\ sheet_recalculate(state.sheet) = state.sheet

\* Two recalculations in a row with A1 = B1 + 1 stale after both.
C30_Witness ==
    /\ hist.last_op = "sheet_recalculate"
    /\ hist.prev_op = "sheet_recalculate"
    /\ {<<0, 0>>, <<0, 1>>} \subseteq FormulaCells(state.sheet)
    /\ state.sheet.cells[<<0, 0>>].expression = "=B1+1"
    /\ state.sheet.cells[<<0, 1>>].error = "ERROR_NONE"
    /\ state.sheet.cells[<<0, 0>>].cached_value
          # state.sheet.cells[<<0, 1>>].cached_value + 1 * Scale
    /\ state.sheet = hist.pre_sheet

\* The evaluator has read a byte behind the terminating NUL of the text.
ReadPastEnd == hist.scanned.pos > Len(hist.text) + 1

\* C28: an expression with a grammar violation (no closing ')', no ',' between
\* arguments, an unterminated string literal, an empty factor) evaluates to
\* the Parse error, and the evaluator reads nothing behind the terminator.
C28_GrammarViolationIsParseError ==
    (hist.last_op = "evaluate_formula" /\ hist.text \in GrammarViolations)
        => (hist.scanned.error = "ERROR_PARSE" /\ ~ReadPastEnd)

\* The pointers that the records 0 .. count - 1 of the log hold, one entry
\* for every field that holds one.
SnapshotReferences ==
    [k \in 1 .. 4 * state.undo_buffer.count |->
        With(MemSlot(hist.mem, (k - 1) \div 4), LAMBDA s :
          CASE (k - 1) % 4 = 0 -> s.old0
            [] (k - 1) % 4 = 1 -> s.old2
            [] (k - 1) % 4 = 2 -> s.new0
            [] OTHER -> s.new2)]

\* The record the last operation wrote, when it wrote one.
LastRecorded == MemSlot(hist.mem, state.undo_buffer.count - 1)

\* C29: the undo log owns its snapshot strings exclusively. Every free of
\* the log is handed a live string that the freeing record allocated itself;
\* no string is referenced from two fields of the records of the log; and
\* the slot a new record is written to shows no after-state of an earlier
\* record.
C29_SnapshotsOwnedExclusively ==
    /\ \A i \in 1 .. Len(hist.mem.freed) : hist.mem.freed[i].owned
    /\ \A j, k \in 1 .. Len(SnapshotReferences) :
          (j # k /\ SnapshotReferences[j].k = "ptr")
             => SnapshotReferences[j] # SnapshotReferences[k]
    /\ hist.last_op \in {"input", "clear"}
          => (LastRecorded.new_type = "CELL_EMPTY" /\ LastRecorded.new0 = Zero
              /\ LastRecorded.new2 = Zero)

====
